---- MODULE Spec2Model ----
(***************************************************************************)
(* A model of the tree-walking Lox interpreter of tree-walk-rs: the        *)
(* scanner (scanner/mod.rs), the parser (parser/mod.rs), the resolver      *)
(* (resolver/mod.rs), the runtime object model                             *)
(* (interpreter/{environment,function,class,callables,instance}.rs) and    *)
(* the evaluator (interpreter/mod.rs).                                     *)
(*                                                                         *)
(* Spec runs the resolver and the interpreter over a family of programs    *)
(* given as syntax trees (ast/expression.rs, ast/statement.rs); ScanSpec   *)
(* scans every short source text; ParseSpec parses the tokens of source    *)
(* texts; RunSpec is run of lib.rs on a source text: scan, parse and       *)
(* interpret.                                                              *)
(*                                                                         *)
(* Rust functions are operators of the same name; a function that takes    *)
(* &mut self takes the state record first and returns the new one.         *)
(***************************************************************************)
EXTENDS Integers, Sequences, FiniteSets, TLC

VARIABLES
    prog,        \* index of the program being run (the input)
    stmts,       \* the statement list handed to the resolver and interpreter
    pc,          \* "resolve", "interpret", "done", "rejected", "panicked"
    ip,          \* index of the next top-level statement (the loop of interpret)
    resolver,    \* the Resolver; resolver.locals is Interpreter.locals, the
                 \* binding table, a Vec<(Expr, usize)>
    resolveErr,  \* the error returned by resolve_stmts, "" when Ok
    resolveToken, \* the token of that error, None when Ok
    st,          \* the interpreter state: heaps, current environment, output
    last,        \* what the last executed top-level statement did
    scanner,     \* the Scanner of a scan: source, tokens, position, errors
    parser       \* the Parser of a parse: tokens, position, statements, errors

vars == <<prog, stmts, pc, ip, resolver, resolveErr, resolveToken, st, last, scanner, parser>>

\* ------------------------------------------------------------------------
\* Tokens (scanner/token.rs) and syntax trees (ast/)
\* ------------------------------------------------------------------------

None == [k |-> "None"]

\* Token::new without the identity; Token_ids below hands out the ids.
Tok(typ, lexeme) == [id |-> 0, typ |-> typ, lexeme |-> lexeme, line |-> 1]

Ident(name) == Tok("Identifier", name)

\* LiteralValue
LNil == [t |-> "Nil"]
LBool(b) == [t |-> "Boolean", b |-> b]
LNum(n) == [t |-> "Number", n |-> n]
LText(s) == [t |-> "Text", s |-> s]

\* Expr
Literal(v) == [k |-> "Literal", value |-> v]
Num(n) == Literal(LNum(n))
Str(s) == Literal(LText(s))
Grouping(e) == [k |-> "Grouping", expression |-> e]
Unary(op, r) == [k |-> "Unary", operator |-> Tok(op, op), right |-> r]
Binary(l, op, r) == [k |-> "Binary", left |-> l, operator |-> Tok(op, op), right |-> r]
Logical(l, op, r) == [k |-> "Logical", left |-> l, operator |-> Tok(op, op), right |-> r]
Variable(name) == [k |-> "Variable", name |-> Ident(name)]
Assign(name, v) == [k |-> "Assign", name |-> Ident(name), value |-> v]
Call(callee, args) == [k |-> "Call", callee |-> callee, paren |-> Tok("RightParen", ")"), arguments |-> args]
Get(obj, name) == [k |-> "Get", object |-> obj, name |-> Ident(name)]
Set(obj, name, v) == [k |-> "Set", object |-> obj, name |-> Ident(name), value |-> v]
This == [k |-> "This", keyword |-> Tok("This", "this")]
Super(method) == [k |-> "Super", keyword |-> Tok("Super", "super"), method |-> Ident(method)]

\* FuncDeclaration and Stmt
Params(names) == [i \in 1..Len(names) |-> Ident(names[i])]
FuncDeclaration(name, params, body) == [name |-> Ident(name), params |-> Params(params), body |-> body]
SExpression(e) == [k |-> "Expression", expr |-> e]
SFunction(name, params, body) == [k |-> "Function", decl |-> FuncDeclaration(name, params, body)]
SIf(c, t, e) == [k |-> "If", condition |-> c, then_branch |-> t, else_branch |-> e]
SPrint(e) == [k |-> "Print", expr |-> e]
SReturn(v) == [k |-> "Return", keyword |-> Tok("Return", "return"), value_expr |-> v]
SVar(name, init) == [k |-> "Var", name |-> Ident(name), initializer |-> init]
SWhile(c, b) == [k |-> "While", condition |-> c, body |-> b]
SBlock(ss) == [k |-> "Block", statements |-> ss]
SClass(name, super, methods) == [k |-> "Class", name |-> Ident(name), super_class |-> IF super = "" THEN None ELSE Ident(super), methods |-> methods]

\* ------------------------------------------------------------------------
\* Token identity: Token::new draws the id of every token from a counter,
\* so the tokens of one program carry pairwise different ids.  NumberStmts
\* walks a tree in source order and gives each token the next counter value.
\* ------------------------------------------------------------------------

\* Token::new without the counter: every token has the id 0
Token_new_same(tok, counter) == tok

Token_new(tok, counter) == [tok EXCEPT !.id = counter]

RECURSIVE NumberExpr(_, _), NumberExprs(_, _), NumberStmt(_, _), NumberStmts(_, _), NumberDecl(_, _), NumberDecls(_, _), NumberTokens(_, _)

\* a list of tokens (the parameters)
NumberTokens(toks, c) ==
    IF toks = <<>> THEN [x |-> <<>>, c |-> c]
    ELSE LET rest == NumberTokens(Tail(toks), c + 1)
         IN [x |-> <<Token_new(Head(toks), c)>> \o rest.x, c |-> rest.c]

NumberExprs(es, c) ==
    IF es = <<>> THEN [x |-> <<>>, c |-> c]
    ELSE LET h == NumberExpr(Head(es), c)
             rest == NumberExprs(Tail(es), h.c)
         IN [x |-> <<h.x>> \o rest.x, c |-> rest.c]

NumberExpr(e, c) ==
    CASE e.k = "Literal" -> [x |-> e, c |-> c]
      [] e.k = "Grouping" ->
            LET a == NumberExpr(e.expression, c)
            IN [x |-> [e EXCEPT !.expression = a.x], c |-> a.c]
      [] e.k = "Unary" ->
            LET a == NumberExpr(e.right, c + 1)
            IN [x |-> [e EXCEPT !.operator = Token_new(e.operator, c), !.right = a.x], c |-> a.c]
      [] e.k \in {"Binary", "Logical"} ->
            LET a == NumberExpr(e.left, c)
                b == NumberExpr(e.right, a.c + 1)
            IN [x |-> [e EXCEPT !.left = a.x, !.operator = Token_new(e.operator, a.c), !.right = b.x], c |-> b.c]
      [] e.k = "Variable" -> [x |-> [e EXCEPT !.name = Token_new(e.name, c)], c |-> c + 1]
      [] e.k = "Assign" ->
            LET a == NumberExpr(e.value, c + 1)
            IN [x |-> [e EXCEPT !.name = Token_new(e.name, c), !.value = a.x], c |-> a.c]
      [] e.k = "Call" ->
            LET a == NumberExpr(e.callee, c)
                b == NumberExprs(e.arguments, a.c)
            IN [x |-> [e EXCEPT !.callee = a.x, !.arguments = b.x, !.paren = Token_new(e.paren, b.c)], c |-> b.c + 1]
      [] e.k = "Get" ->
            LET a == NumberExpr(e.object, c)
            IN [x |-> [e EXCEPT !.object = a.x, !.name = Token_new(e.name, a.c)], c |-> a.c + 1]
      [] e.k = "Set" ->
            LET a == NumberExpr(e.object, c)
                b == NumberExpr(e.value, a.c + 1)
            IN [x |-> [e EXCEPT !.object = a.x, !.name = Token_new(e.name, a.c), !.value = b.x], c |-> b.c]
      [] e.k = "This" -> [x |-> [e EXCEPT !.keyword = Token_new(e.keyword, c)], c |-> c + 1]
      [] e.k = "Super" ->
            [x |-> [e EXCEPT !.keyword = Token_new(e.keyword, c), !.method = Token_new(e.method, c + 1)], c |-> c + 2]

NumberDecl(d, c) ==
    LET ps == NumberTokens(d.params, c + 1)
        b == NumberStmts(d.body, ps.c)
    IN [x |-> [name |-> Token_new(d.name, c), params |-> ps.x, body |-> b.x], c |-> b.c]

NumberDecls(ds, c) ==
    IF ds = <<>> THEN [x |-> <<>>, c |-> c]
    ELSE LET h == NumberDecl(Head(ds), c)
             rest == NumberDecls(Tail(ds), h.c)
         IN [x |-> <<h.x>> \o rest.x, c |-> rest.c]

NumberStmts(ss, c) ==
    IF ss = <<>> THEN [x |-> <<>>, c |-> c]
    ELSE LET h == NumberStmt(Head(ss), c)
             rest == NumberStmts(Tail(ss), h.c)
         IN [x |-> <<h.x>> \o rest.x, c |-> rest.c]

NumberStmt(s, c) ==
    CASE s.k \in {"Expression", "Print"} ->
            LET a == NumberExpr(s.expr, c)
            IN [x |-> [s EXCEPT !.expr = a.x], c |-> a.c]
      [] s.k = "Function" ->
            LET a == NumberDecl(s.decl, c)
            IN [x |-> [s EXCEPT !.decl = a.x], c |-> a.c]
      [] s.k = "If" ->
            LET a == NumberExpr(s.condition, c)
                b == NumberStmt(s.then_branch, a.c)
                e == IF s.else_branch = None THEN [x |-> None, c |-> b.c]
                     ELSE NumberStmt(s.else_branch, b.c)
            IN [x |-> [s EXCEPT !.condition = a.x, !.then_branch = b.x, !.else_branch = e.x], c |-> e.c]
      [] s.k = "Return" ->
            LET a == IF s.value_expr = None THEN [x |-> None, c |-> c + 1]
                     ELSE NumberExpr(s.value_expr, c + 1)
            IN [x |-> [s EXCEPT !.keyword = Token_new(s.keyword, c), !.value_expr = a.x], c |-> a.c]
      [] s.k = "Var" ->
            LET a == IF s.initializer = None THEN [x |-> None, c |-> c + 1]
                     ELSE NumberExpr(s.initializer, c + 1)
            IN [x |-> [s EXCEPT !.name = Token_new(s.name, c), !.initializer = a.x], c |-> a.c]
      [] s.k = "While" ->
            LET a == NumberExpr(s.condition, c)
                b == NumberStmt(s.body, a.c)
            IN [x |-> [s EXCEPT !.condition = a.x, !.body = b.x], c |-> b.c]
      [] s.k = "Block" ->
            LET a == NumberStmts(s.statements, c)
            IN [x |-> [s EXCEPT !.statements = a.x], c |-> a.c]
      [] s.k = "Class" ->
            LET sup == IF s.super_class = None THEN None ELSE Token_new(s.super_class, c + 1)
                c2 == IF s.super_class = None THEN c + 1 ELSE c + 2
                ms == NumberDecls(s.methods, c2)
            IN [x |-> [s EXCEPT !.name = Token_new(s.name, c), !.super_class = sup, !.methods = ms.x], c |-> ms.c]

\* The statement list of a program as the parser hands it on: every token
\* with its own id.
Tokens(ss) == NumberStmts(ss, 0).x

\* ------------------------------------------------------------------------
\* Maps (HashMap<String, _>) as functions over a finite set of strings
\* ------------------------------------------------------------------------

EmptyMap == <<>>
contains_key(map, key) == key \in DOMAIN map
insert(map, key, value) == (key :> value) @@ map

\* ------------------------------------------------------------------------
\* The resolver (resolver/mod.rs).  rs is the Resolver:
\*   scopes, current_function, current_class, and locals, the binding table
\*   of the interpreter it borrows.  A LoxResult<()> is the record
\*   [rs, err] with err = "" for Ok(()).
\* ------------------------------------------------------------------------

ROk(rs) == [rs |-> rs, err |-> "", token |-> None]
\* Err(LoxError::new(token, msg))
RErr(rs, token, msg) == [rs |-> rs, err |-> msg, token |-> token]

\* Interpreter::resolve: one entry per expression, the first equal one is
\* overwritten.
resolve(locs, expr, depth) ==
    LET hits == {i \in 1..Len(locs) : locs[i].expr = expr}
    IN IF hits # {}
       THEN LET first == CHOOSE i \in hits : \A j \in hits : i <= j
            IN [locs EXCEPT ![first].depth = depth]
       ELSE Append(locs, [expr |-> expr, depth |-> depth])

Resolver_new(locs) ==
    [scopes |-> <<>>, current_function |-> "None", current_class |-> "None", locals |-> locs]

begin_scope(rs) == [rs EXCEPT !.scopes = Append(@, EmptyMap)]

end_scope(rs) == [rs EXCEPT !.scopes = SubSeq(@, 1, Len(@) - 1)]

\* declare that accepts a name the scope already holds
declare_unchecked(rs, name) ==
    IF rs.scopes = <<>> THEN ROk(rs)
    ELSE ROk([rs EXCEPT !.scopes[Len(rs.scopes)] = insert(@, name.lexeme, FALSE)])

declare(rs, name) ==
    IF rs.scopes = <<>> THEN ROk(rs)
    ELSE LET n == Len(rs.scopes)
             had == contains_key(rs.scopes[n], name.lexeme)
             rs1 == [rs EXCEPT !.scopes[n] = insert(@, name.lexeme, FALSE)]
         IN IF had THEN RErr(rs1, name, "Already a variable with the same name in this scope")
            ELSE ROk(rs1)

define(rs, name) ==
    IF rs.scopes = <<>> THEN rs
    ELSE [rs EXCEPT !.scopes[Len(rs.scopes)] = insert(@, name.lexeme, TRUE)]

\* resolve_local with the distance counted from the wrong end by one
resolve_local_off(rs, expr, name) ==
    LET n == Len(rs.scopes)
        found == {i \in 1..n : contains_key(rs.scopes[i], name.lexeme)}
    IN IF found = {} THEN rs
       ELSE LET idx == CHOOSE i \in found : \A j \in found : j <= i
            IN [rs EXCEPT !.locals = resolve(@, expr, n - idx + 1)]

resolve_local(rs, expr, name) ==
    LET n == Len(rs.scopes)
        found == {i \in 1..n : contains_key(rs.scopes[i], name.lexeme)}
    IN IF found = {} THEN rs
       ELSE LET idx == CHOOSE i \in found : \A j \in found : j <= i
            IN [rs EXCEPT !.locals = resolve(@, expr, n - idx)]

\* expr_var without the look at the declared-only flag
expr_var_unchecked(rs, expr, name) == ROk(resolve_local(rs, expr, name))

expr_var(rs, expr, name) ==
    LET n == Len(rs.scopes)
    IN IF n > 0 /\ contains_key(rs.scopes[n], name.lexeme) /\ ~rs.scopes[n][name.lexeme]
       THEN RErr(rs, name, "Can't read local variable in its own initializer.")
       ELSE ROk(resolve_local(rs, expr, name))

RECURSIVE resolve_stmts(_, _), resolve_stmt(_, _), resolve_expr(_, _), resolve_exprs(_, _), resolve_function(_, _, _), resolve_methods(_, _), declare_params(_, _)

\* the `?` operator on a LoxResult<()> of the resolver: an error leaves the
\* function, otherwise the function goes on with the resolver as it is now
RTry(r, F(_)) == IF r.err # "" THEN r ELSE F(r.rs)

expr_assign(rs, assign_expr, name, value) ==
    RTry(resolve_expr(rs, value), LAMBDA rs1 : ROk(resolve_local(rs1, assign_expr, name)))

\* the loop over the arguments of a call in resolve_expr
resolve_exprs(rs, es) ==
    IF es = <<>> THEN ROk(rs)
    ELSE RTry(resolve_expr(rs, Head(es)), LAMBDA rs1 : resolve_exprs(rs1, Tail(es)))

resolve_expr(rs, expr) ==
    CASE expr.k \in {"Binary", "Logical"} ->
            RTry(resolve_expr(rs, expr.left), LAMBDA rs1 : resolve_expr(rs1, expr.right))
      [] expr.k = "Call" ->
            RTry(resolve_expr(rs, expr.callee), LAMBDA rs1 : resolve_exprs(rs1, expr.arguments))
      [] expr.k = "Grouping" -> resolve_expr(rs, expr.expression)
      [] expr.k = "Literal" -> ROk(rs)
      [] expr.k = "Unary" -> resolve_expr(rs, expr.right)
      [] expr.k = "Variable" -> expr_var(rs, expr, expr.name)
      [] expr.k = "Assign" -> expr_assign(rs, expr, expr.name, expr.value)
      [] expr.k = "Get" -> resolve_expr(rs, expr.object)
      [] expr.k = "Set" ->
            RTry(resolve_expr(rs, expr.object), LAMBDA rs1 : resolve_expr(rs1, expr.value))
      [] expr.k = "This" ->
            IF rs.current_class = "None"
            THEN RErr(rs, expr.keyword, "Can't use 'this' outside of a class.")
            ELSE ROk(resolve_local(rs, expr, expr.keyword))
      [] expr.k = "Super" ->
            IF rs.current_class = "None"
            THEN RErr(rs, expr.keyword, "Can't use 'super' outside of a class")
            ELSE IF rs.current_class = "Class"
            THEN RErr(rs, expr.keyword, "Can't use 'super' in a class with no superclass")
            ELSE ROk(resolve_local(rs, expr, expr.keyword))

resolve_return(rs, keyword, value_expr) ==
    IF rs.current_function = "None"
    THEN RErr(rs, keyword, "Can't return from top level code")
    ELSE IF value_expr # None
    THEN IF rs.current_function = "Initializer"
         THEN RErr(rs, keyword, "Can't return a value fron an initializer.")
         ELSE resolve_expr(rs, value_expr)
    ELSE ROk(rs)

\* the loop over the parameters in resolve_function
declare_params(rs, params) ==
    IF params = <<>> THEN ROk(rs)
    ELSE RTry(declare(rs, Head(params)),
              LAMBDA rs1 : declare_params(define(rs1, Head(params)), Tail(params)))

\* resolve_function whose scope guard does not restore the function kind
resolve_function_keeps_kind(rs, func_declaration, typ) ==
    LET guard(r) == [r EXCEPT !.rs = end_scope(r.rs)]
    IN guard(RTry(declare_params(begin_scope([rs EXCEPT !.current_function = typ]),
                                 func_declaration.params),
                  LAMBDA rs1 : resolve_stmts(rs1, func_declaration.body)))

resolve_function(rs, func_declaration, typ) ==
    LET enclosing_fun == rs.current_function
        \* the scope guard: runs on every way out
        guard(r) == [r EXCEPT !.rs = [end_scope(r.rs) EXCEPT !.current_function = enclosing_fun]]
    IN guard(RTry(declare_params(begin_scope([rs EXCEPT !.current_function = typ]),
                                 func_declaration.params),
                  LAMBDA rs1 : resolve_stmts(rs1, func_declaration.body)))

visit_stmt_function(rs, func_declaration) ==
    RTry(declare(rs, func_declaration.name),
         LAMBDA rs1 : resolve_function(define(rs1, func_declaration.name), func_declaration, "Function"))

resolve_var(rs, name, initializer) ==
    RTry(declare(rs, name), LAMBDA rs1 :
        RTry(IF initializer # None THEN resolve_expr(rs1, initializer) ELSE ROk(rs1),
             LAMBDA rs2 : ROk(define(rs2, name))))

resolve_block(rs, ss) ==
    \* the scope guard: runs on every way out
    LET guard(res) == [res EXCEPT !.rs = end_scope(@)]
    IN guard(resolve_stmts(begin_scope(rs), ss))

\* the loop over the methods in resolve_stmt_class
resolve_methods(rs, methods) ==
    IF methods = <<>> THEN ROk(rs)
    ELSE LET method == Head(methods)
             declaration == IF method.name.lexeme = "init" THEN "Initializer" ELSE "Method"
         IN RTry(resolve_function(rs, method, declaration),
                 LAMBDA rs1 : resolve_methods(rs1, Tail(methods)))

\* scopes.last_mut().insert(name, true) on the scope begin_scope has pushed
scope_insert(rs, name) == [rs EXCEPT !.scopes[Len(rs.scopes)] = insert(@, name, TRUE)]

\* resolve_stmt_class without the comparison of the two names
resolve_stmt_class_unchecked(rs, name, super_class, methods) ==
    LET enclusing_class == rs.current_class
        guard1(r) == [r EXCEPT !.rs.current_class = enclusing_class]
        guard2(r) == [r EXCEPT !.rs = IF super_class # None THEN end_scope(end_scope(@)) ELSE end_scope(@)]
    IN guard1(RTry(declare([rs EXCEPT !.current_class = "Class"], name), LAMBDA rs1 :
           RTry(IF super_class = None THEN ROk(define(rs1, name))
                ELSE RTry(resolve_expr([define(rs1, name) EXCEPT !.current_class = "SubClass"],
                                       [k |-> "Variable", name |-> super_class]),
                          LAMBDA rs2 : ROk(scope_insert(begin_scope(rs2), "super"))),
                LAMBDA rs3 : guard2(resolve_methods(scope_insert(begin_scope(rs3), "this"), methods)))))

\* resolve_stmt_class without the scope guard that restores the class kind
resolve_stmt_class_keeps_kind(rs, name, super_class, methods) ==
    LET guard2(r) == [r EXCEPT !.rs = IF super_class # None THEN end_scope(end_scope(@)) ELSE end_scope(@)]
    IN RTry(declare([rs EXCEPT !.current_class = "Class"], name), LAMBDA rs1 :
           RTry(IF super_class = None THEN ROk(define(rs1, name))
                ELSE IF name.lexeme = super_class.lexeme
                THEN RErr(define(rs1, name), super_class, "A class can't inherit from itself.")
                ELSE RTry(resolve_expr([define(rs1, name) EXCEPT !.current_class = "SubClass"],
                                       [k |-> "Variable", name |-> super_class]),
                          LAMBDA rs2 : ROk(scope_insert(begin_scope(rs2), "super"))),
                LAMBDA rs3 : guard2(resolve_methods(scope_insert(begin_scope(rs3), "this"), methods))))

resolve_stmt_class(rs, name, super_class, methods) ==
    LET enclusing_class == rs.current_class
        \* the first scope guard: restores the class kind
        guard1(r) == [r EXCEPT !.rs.current_class = enclusing_class]
        \* the second scope guard: ends the scopes of `this` and `super`
        guard2(r) == [r EXCEPT !.rs = IF super_class # None THEN end_scope(end_scope(@)) ELSE end_scope(@)]
    IN guard1(RTry(declare([rs EXCEPT !.current_class = "Class"], name), LAMBDA rs1 :
           RTry(IF super_class = None THEN ROk(define(rs1, name))
                ELSE IF name.lexeme = super_class.lexeme
                THEN RErr(define(rs1, name), super_class, "A class can't inherit from itself.")
                ELSE RTry(resolve_expr([define(rs1, name) EXCEPT !.current_class = "SubClass"],
                                       [k |-> "Variable", name |-> super_class]),
                          LAMBDA rs2 : ROk(scope_insert(begin_scope(rs2), "super"))),
                LAMBDA rs3 : guard2(resolve_methods(scope_insert(begin_scope(rs3), "this"), methods)))))

resolve_stmt(rs, stmt) ==
    CASE stmt.k = "Expression" -> resolve_expr(rs, stmt.expr)
      [] stmt.k = "Function" -> visit_stmt_function(rs, stmt.decl)
      [] stmt.k = "If" ->
            RTry(resolve_expr(rs, stmt.condition), LAMBDA rs1 :
                RTry(resolve_stmt(rs1, stmt.then_branch), LAMBDA rs2 :
                    IF stmt.else_branch # None THEN resolve_stmt(rs2, stmt.else_branch)
                    ELSE ROk(rs2)))
      [] stmt.k = "Print" -> resolve_expr(rs, stmt.expr)
      [] stmt.k = "Return" -> resolve_return(rs, stmt.keyword, stmt.value_expr)
      [] stmt.k = "Var" -> resolve_var(rs, stmt.name, stmt.initializer)
      [] stmt.k = "While" ->
            RTry(resolve_expr(rs, stmt.condition), LAMBDA rs1 : resolve_stmt(rs1, stmt.body))
      [] stmt.k = "Block" -> resolve_block(rs, stmt.statements)
      [] stmt.k = "Class" -> resolve_stmt_class(rs, stmt.name, stmt.super_class, stmt.methods)

\* resolve_stmts that goes on with the next statement after an error and
\* returns the first error at the end
resolve_stmts_on(rs, ss) ==
    IF ss = <<>> THEN ROk(rs)
    ELSE CHOOSE out \in {IF r.err = "" THEN resolve_stmts(r.rs, Tail(ss))
                         ELSE [r EXCEPT !.rs = resolve_stmts(r.rs, Tail(ss)).rs] :
                         r \in {resolve_stmt(rs, Head(ss))}} : TRUE

resolve_stmts(rs, ss) ==
    IF ss = <<>> THEN ROk(rs)
    ELSE RTry(resolve_stmt(rs, Head(ss)), LAMBDA rs1 : resolve_stmts(rs1, Tail(ss)))

\* ------------------------------------------------------------------------
\* Runtime values (interpreter/values.rs, callables.rs, function.rs)
\* ------------------------------------------------------------------------

VNil == [t |-> "Nil"]
VBool(b) == [t |-> "Boolean", b |-> b]
VNum(n) == [t |-> "Number", n |-> n]
VStr(s) == [t |-> "String", s |-> s]
\* the f64 l / r when it is no integer: a fraction, an infinity or NaN
VQuotient(l, r) == [t |-> "Number", q |-> <<l, r>>]
VClock == [t |-> "Callable", c |-> "Clock"]
\* Rc<RefCell<LoxClass>> and Rc<RefCell<LoxInstance>>: an index into a heap
VClass(id) == [t |-> "Callable", c |-> "Class", class |-> id]
VInstance(id) == [t |-> "Instance", inst |-> id]

\* LoxFunction::new as function.rs has it: a declaration and a closure.
LoxFunction_new(declaration, closure) ==
    [t |-> "Callable", c |-> "LoxFunction", declaration |-> declaration, closure |-> closure]

\* impl From<&LiteralValue> for LoxValue
FromLiteral(value) ==
    CASE value.t = "Nil" -> VNil
      [] value.t = "Boolean" -> VBool(value.b)
      [] value.t = "Text" -> VStr(value.s)
      [] value.t = "Number" -> VNum(value.n)

is_truthy(v) ==
    CASE v.t = "Nil" -> FALSE
      [] v.t = "Boolean" -> v.b
      [] OTHER -> TRUE

\* ------------------------------------------------------------------------
\* The interpreter state st
\*   envs         the heap of Environments, each [enclosing, values];
\*                enclosing = 0 is None
\*   classes      the heap of LoxClass, each [name, methods, super_class]
\*   insts        the heap of LoxInstance, each [class, fields]
\*   environment  Interpreter.environment, an index into envs
\*   now          what the system clock reads
\*   hasher       what a comparison of two HashMaps meets first when one
\*                entry differs and another never ends: "ne" or "overflow"
\*   log          the history of the run, for the properties: statements
\*                and expressions entered, errors raised, values printed,
\*                environments entered and left
\* Interpreter.globals is envs[Globals].  A LoxResult<LoxValue> is the
\* record [st, tag, val, msg]: tag "ok" for Ok(val), "err" for
\* Err(LoxError::Error), "ret" for Err(LoxError::Return), "panic" for a
\* panic of the Rust program.
\* ------------------------------------------------------------------------

Globals == 1
CLOCK_NAME == "clock"

Ok(s, v) == [st |-> s, tag |-> "ok", val |-> v, msg |-> ""]
Ret(s, v) == [st |-> s, tag |-> "ret", val |-> v, msg |-> ""]
Panic(s, m) == [st |-> s, tag |-> "panic", val |-> VNil, msg |-> m]
Log(s, ev) == [s EXCEPT !.log = Append(@, ev)]
\* the history entry of leaving a block, a call or a class declaration that
\* was entered with the current environment before
Left(r, op, before) ==
    [r EXCEPT !.st = Log(@, [e |-> "left", op |-> op, before |-> before,
                             after |-> r.st.environment, exit |-> r.tag])]
\* the history entry of a reference that has a distance in the binding table
Resolved(s, expr, depth) ==
    Log(s, [e |-> "resolved", k |-> expr.k, depth |-> depth, environment |-> s.environment])
\* LoxError::new
Err(s, m) == [st |-> Log(s, [e |-> "raise", msg |-> m]), tag |-> "err", val |-> VNil, msg |-> m]

\* Interpreter::new
Interpreter_new(now, hasher) ==
    [envs |-> <<[enclosing |-> 0, values |-> insert(EmptyMap, CLOCK_NAME, VClock)]>>,
     classes |-> <<>>,
     insts |-> <<>>,
     environment |-> Globals,
     now |-> now,
     hasher |-> hasher,
     log |-> <<>>]

\* ------------------------------------------------------------------------
\* Environment (interpreter/environment.rs)
\* ------------------------------------------------------------------------

\* Environment::with_enclosing: the new environment is the last of the heap
with_enclosing(s, enclosing) ==
    [s EXCEPT !.envs = Append(@, [enclosing |-> enclosing, values |-> EmptyMap])]

NewEnv(s) == Len(s.envs)

Environment_define(s, env, key, value) ==
    [s EXCEPT !.envs[env].values = insert(@, key, value)]

RECURSIVE Environment_get(_, _, _), Environment_assign(_, _, _, _), find_ancestor(_, _, _)

Environment_get(s, env, name) ==
    IF contains_key(s.envs[env].values, name.lexeme)
    THEN Ok(s, s.envs[env].values[name.lexeme])
    ELSE IF s.envs[env].enclosing # 0
    THEN Environment_get(s, s.envs[env].enclosing, name)
    ELSE Err(s, "Undefined variable '" \o name.lexeme \o "'.")

\* 0 when an enclosing link is missing: expect("It should contain a value")
find_ancestor(s, current, distance) ==
    IF distance = 0 THEN current
    ELSE IF s.envs[current].enclosing = 0 THEN 0
    ELSE find_ancestor(s, s.envs[current].enclosing, distance - 1)

get_at(s, current, depth, name) ==
    LET env == find_ancestor(s, current, depth)
    IN IF env = 0 THEN Panic(s, "It should contain a value")
       ELSE IF ~contains_key(s.envs[env].values, name)
       THEN Panic(s, "Value must be avaible")
       ELSE Ok(s, s.envs[env].values[name])

\* assign that defines the name in the outermost environment when no
\* environment holds it
Environment_assign_creating(s, env, name, value) ==
    IF contains_key(s.envs[env].values, name.lexeme) \/ s.envs[env].enclosing = 0
    THEN Ok(Environment_define(s, env, name.lexeme, value), VNil)
    ELSE Environment_assign(s, s.envs[env].enclosing, name, value)

Environment_assign(s, env, name, value) ==
    IF contains_key(s.envs[env].values, name.lexeme)
    THEN Ok(Environment_define(s, env, name.lexeme, value), VNil)
    ELSE IF s.envs[env].enclosing # 0
    THEN Environment_assign(s, s.envs[env].enclosing, name, value)
    ELSE Err(s, "Undefined variable '" \o name.lexeme \o "'.")

assign_at(s, current, distance, name, value) ==
    LET env == find_ancestor(s, current, distance)
    IN IF env = 0 THEN Panic(s, "It should contain a value")
       ELSE Ok(Environment_define(s, env, name.lexeme, value), VNil)

\* ------------------------------------------------------------------------
\* Classes and instances (interpreter/class.rs, instance.rs, function.rs)
\* ------------------------------------------------------------------------

RECURSIVE find_method(_, _, _)

\* find_method that asks the superclass before the class's own methods
find_method_super_first(s, class, name) ==
    LET c == s.classes[class]
        inherited == IF c.super_class # 0 THEN find_method(s, c.super_class, name) ELSE None
    IN IF inherited # None THEN inherited
       ELSE IF contains_key(c.methods, name) THEN c.methods[name]
       ELSE None

\* None is returned as the value None
find_method(s, class, name) ==
    LET c == s.classes[class]
    IN IF contains_key(c.methods, name) THEN c.methods[name]
       ELSE IF c.super_class # 0 THEN find_method(s, c.super_class, name)
       ELSE None

\* LoxInstance::new: the new instance is the last of the heap
LoxInstance_new(s, class) ==
    Log([s EXCEPT !.insts = Append(@, [class |-> class, fields |-> EmptyMap])],
        [e |-> "instance", inst |-> Len(s.insts) + 1, class |-> class])

NewInstance(s) == Len(s.insts)

\* LoxFunction::bind: [st, val], a new environment holding `this`
bind(s, function, instance) ==
    LET s1 == with_enclosing(s, function.closure)
        env == NewEnv(s1)
        s2 == Environment_define(s1, env, "this", VInstance(instance))
    IN Ok(s2, LoxFunction_new(function.declaration, env))

\* get that looks for a method of the class before the fields
LoxInstance_get_method_first(s, inst_ref, name) ==
    LET instance == s.insts[inst_ref]
        method == find_method(s, instance.class, name.lexeme)
    IN IF method # None THEN bind(s, method, inst_ref)
       ELSE IF contains_key(instance.fields, name.lexeme)
       THEN Ok(s, instance.fields[name.lexeme])
       ELSE Err(s, "Undefined property '" \o name.lexeme \o "'.")

LoxInstance_get(s, inst_ref, name) ==
    LET instance == s.insts[inst_ref]
    IN IF contains_key(instance.fields, name.lexeme)
       THEN Ok(s, instance.fields[name.lexeme])
       ELSE LET method == find_method(s, instance.class, name.lexeme)
            IN IF method # None THEN bind(s, method, inst_ref)
               ELSE Err(s, "Undefined property '" \o name.lexeme \o "'.")

LoxInstance_set(s, inst_ref, name, value) ==
    [s EXCEPT !.insts[inst_ref].fields = insert(@, name.lexeme, value)]

\* ------------------------------------------------------------------------
\* LoxCallable (interpreter/callables.rs) and the evaluator
\* (interpreter/mod.rs)
\* ------------------------------------------------------------------------

\* LoxCallable::arity
arity(s, callee) ==
    CASE callee.c = "Clock" -> 0
      [] callee.c = "LoxFunction" -> Len(callee.declaration.params)
      [] callee.c = "Class" -> 0

\* LoxClass::arity (class.rs)
LoxClass_arity(s, class) ==
    LET initializer == find_method(s, class, "init")
    IN IF initializer # None THEN Len(initializer.declaration.params) ELSE 0

\* derive(PartialEq) of LoxValue and of what it holds: the comparison walks
\* through closures, classes, instances and environments by value, the Rc
\* pointers are never compared.  The outcome of a comparison is a set over
\*   "eq", "ne"  the answer,
\*   "overflow"  the walk comes back to a pair it is still comparing and
\*               recurses until the stack of the process is used up;
\* the set has two members, "ne" and "overflow", when the answer depends on
\* the order in which a HashMap hands out its entries.

\* a && b on outcomes, a first
both_eq(a, b) == (a \ {"eq"}) \cup (IF "eq" \in a THEN b ELSE {})

\* Iterator::all over outcomes, in any order
all_eq(outcomes) ==
    (IF \A o \in outcomes : "eq" \in o THEN {"eq"} ELSE {})
    \cup (IF \E o \in outcomes : "ne" \in o THEN {"ne"} ELSE {})
    \cup (IF \E o \in outcomes : "overflow" \in o THEN {"overflow"} ELSE {})

bool_eq(b) == IF b THEN {"eq"} ELSE {"ne"}

\* f64 == f64 on Numbers; a quotient that is no integer is kept as its two
\* terms q (see VQuotient)
IsQuotient(v) == "q" \in DOMAIN v
f64_eq(a, b) ==
    IF ~IsQuotient(a) /\ ~IsQuotient(b) THEN a.n = b.n
    ELSE IF IsQuotient(a) /\ IsQuotient(b)
    THEN IF a.q[2] = 0 \/ b.q[2] = 0
         THEN \* infinities of one sign are equal, NaN is equal to nothing
              /\ a.q[2] = 0 /\ b.q[2] = 0 /\ a.q[1] # 0 /\ b.q[1] # 0
              /\ (a.q[1] > 0) = (b.q[1] > 0)
         ELSE a.q[1] * b.q[2] = b.q[1] * a.q[2]
    ELSE FALSE

RECURSIVE value_eq(_, _, _, _), map_eq(_, _, _, _), environment_eq(_, _, _, _),
          class_eq(_, _, _, _), instance_eq(_, _, _, _)

\* HashMap == HashMap
map_eq(s, m1, m2, seen) ==
    IF Cardinality(DOMAIN m1) # Cardinality(DOMAIN m2) THEN {"ne"}
    ELSE all_eq({ IF contains_key(m2, key) THEN value_eq(s, m1[key], m2[key], seen) ELSE {"ne"}
                  : key \in DOMAIN m1 })

\* Rc<RefCell<Environment>> == Rc<RefCell<Environment>>: enclosing, then values
environment_eq(s, a, b, seen) ==
    IF <<"env", a, b>> \in seen THEN {"overflow"}
    ELSE both_eq(IF s.envs[a].enclosing = 0 \/ s.envs[b].enclosing = 0
                 THEN bool_eq(s.envs[a].enclosing = s.envs[b].enclosing)
                 ELSE environment_eq(s, s.envs[a].enclosing, s.envs[b].enclosing,
                                     seen \cup {<<"env", a, b>>}),
                 map_eq(s, s.envs[a].values, s.envs[b].values, seen \cup {<<"env", a, b>>}))

\* LoxClass == LoxClass: name, methods, super_class
class_eq(s, a, b, seen) ==
    both_eq(bool_eq(s.classes[a].name = s.classes[b].name),
            both_eq(map_eq(s, s.classes[a].methods, s.classes[b].methods, seen),
                    IF s.classes[a].super_class = 0 \/ s.classes[b].super_class = 0
                    THEN bool_eq(s.classes[a].super_class = s.classes[b].super_class)
                    ELSE class_eq(s, s.classes[a].super_class, s.classes[b].super_class, seen)))

\* LoxInstance == LoxInstance: class, then fields
instance_eq(s, a, b, seen) ==
    IF <<"inst", a, b>> \in seen THEN {"overflow"}
    ELSE both_eq(class_eq(s, s.insts[a].class, s.insts[b].class, seen \cup {<<"inst", a, b>>}),
                 map_eq(s, s.insts[a].fields, s.insts[b].fields, seen \cup {<<"inst", a, b>>}))

value_eq(s, a, b, seen) ==
    IF a.t # b.t THEN {"ne"}
    ELSE CASE a.t = "Nil" -> {"eq"}
           [] a.t = "Boolean" -> bool_eq(a.b = b.b)
           [] a.t = "Number" -> bool_eq(f64_eq(a, b))
           [] a.t = "String" -> bool_eq(a.s = b.s)
           [] a.t = "Instance" -> instance_eq(s, a.inst, b.inst, seen)
           [] a.t = "Callable" ->
                IF a.c # b.c THEN {"ne"}
                ELSE CASE a.c = "Clock" -> {"eq"}
                       [] a.c = "Class" -> class_eq(s, a.class, b.class, seen)
                       [] a.c = "LoxFunction" ->
                            both_eq(bool_eq(a.declaration = b.declaration),
                                    environment_eq(s, a.closure, b.closure, seen))

LoxValue_eq(s, a, b) == value_eq(s, a, b, {})

\* left == right (negate = FALSE) and left != right in evaluate_binary
equality(s, left, right, negate) ==
    LET outcome == LoxValue_eq(s, left, right)
        overflow == Panic(s, "thread 'main' has overflowed its stack")
    IN CASE outcome = {"eq"} -> Ok(s, VBool(~negate))
         [] outcome = {"ne"} -> Ok(s, VBool(negate))
         [] outcome = {"overflow"} -> overflow
         [] OTHER -> IF s.hasher = "ne" THEN Ok(s, VBool(negate)) ELSE overflow

get_distance(locs, expr) ==
    LET hits == {i \in 1..Len(locs) : locs[i].expr = expr}
    IN IF hits = {} THEN None
       ELSE [depth |-> locs[CHOOSE i \in hits : \A j \in hits : i <= j].depth]

\* the zip of arguments and parameters in call_function
RECURSIVE define_params(_, _, _, _)
define_params(s, env, params, arguments) ==
    IF params = <<>> \/ arguments = <<>> THEN s
    ELSE define_params(Environment_define(s, env, Head(params).lexeme, Head(arguments)),
                       env, Tail(params), Tail(arguments))

RECURSIVE evaluate(_, _, _), execute(_, _, _), execute_stmts(_, _, _), execute_block(_, _, _, _),
          execute_while(_, _, _, _), evaluate_args(_, _, _, _), evaluate_call(_, _, _, _, _),
          LoxCallable_call(_, _, _, _), call_function(_, _, _, _, _), LoxFunction_call(_, _, _, _),
          LoxClass_call(_, _, _, _), evaluate_class(_, _, _, _, _), class_methods(_, _, _),
          evaluate_super(_, _, _, _), evaluate_get(_, _, _, _), evaluate_set(_, _, _, _, _),
          lookup_variable(_, _, _, _), assign_expr(_, _, _, _, _), evaluate_unary(_, _, _, _),
          evaluate_binary(_, _, _, _, _), evaluate_logical(_, _, _, _, _)

\* the `?` operator on a LoxResult: an error, a return or a panic leaves the
\* function, otherwise the function goes on with the state and the value
Try(r, F(_, _)) == IF r.tag # "ok" THEN r ELSE F(r.st, r.val)

\* a `let`: the value is computed once and named
Let(v, F(_)) == F(v)

\* lookup_variable that, without a distance, searches the chain of
\* environments from the current one
lookup_variable_dynamic(locs, s, main_expr, name) ==
    LET distance == get_distance(locs, main_expr)
    IN IF distance # None
       THEN get_at(Resolved(s, main_expr, distance.depth), s.environment, distance.depth, name.lexeme)
       ELSE Environment_get(s, s.environment, name)

lookup_variable(locs, s, main_expr, name) ==
    LET distance == get_distance(locs, main_expr)
    IN IF distance # None
       THEN get_at(Resolved(s, main_expr, distance.depth), s.environment, distance.depth, name.lexeme)
       ELSE Environment_get(s, Globals, name)

assign_expr(locs, s, main_exp, name, value) ==
    Try(evaluate(locs, s, value), LAMBDA s1, v :
        Try(LET dist == get_distance(locs, main_exp)
            IN IF dist # None
               THEN assign_at(Resolved(s1, main_exp, dist.depth), s1.environment, dist.depth, name, v)
               ELSE Environment_assign(s1, Globals, name, v),
            LAMBDA s2, unit : Ok(s2, v)))

evaluate_unary(locs, s, operator, right) ==
    Try(evaluate(locs, s, right), LAMBDA s1, r :
        CASE operator.typ = "Minus" ->
                IF r.t = "Number" THEN Ok(s1, VNum(0 - r.n))
                ELSE Err(s1, "Operand must be number.")
          [] operator.typ = "Bang" -> Ok(s1, VBool(~is_truthy(r)))
          [] OTHER -> Panic(s1, "Unreachable in Unary Expression."))

\* the match of evaluate_binary, on the two values
binary_op(s, left, typ, right) ==
    LET nums == left.t = "Number" /\ right.t = "Number"
    IN CASE typ = "Minus" /\ nums -> Ok(s, VNum(left.n - right.n))
         [] typ = "Slash" /\ nums /\ right.n # 0 /\ left.n % right.n = 0 -> Ok(s, VNum(left.n \div right.n))
         [] typ = "Slash" /\ nums -> Ok(s, VQuotient(left.n, right.n))
         [] typ = "Star" /\ nums -> Ok(s, VNum(left.n * right.n))
         [] typ = "Plus" /\ nums -> Ok(s, VNum(left.n + right.n))
         [] typ = "Plus" /\ left.t = "String" /\ right.t = "String" -> Ok(s, VStr(left.s \o right.s))
         [] typ = "Plus" -> Err(s, "Operands must be two numbers or two Strings")
         [] typ = "Greater" /\ nums -> Ok(s, VBool(left.n > right.n))
         [] typ = "GreaterEqual" /\ nums -> Ok(s, VBool(left.n >= right.n))
         [] typ = "Less" /\ nums -> Ok(s, VBool(left.n < right.n))
         [] typ = "LessEqual" /\ nums -> Ok(s, VBool(left.n <= right.n))
         [] typ \in {"Minus", "Slash", "Star", "Greater", "GreaterEqual", "Less", "LessEqual"} ->
                Err(s, "Operands must be numbers")
         [] typ = "EqualEqual" -> equality(s, left, right, FALSE)
         [] typ = "BangEqual" -> equality(s, left, right, TRUE)
         [] OTHER -> Panic(s, "Unreachable in Binary Expression.")

evaluate_binary(locs, s, left, operator, right) ==
    Try(evaluate(locs, s, left), LAMBDA s1, l :
        Try(evaluate(locs, s1, right), LAMBDA s2, r :
            binary_op(s2, l, operator.typ, r)))

\* evaluate_logical that evaluates both operands before it looks at the left
evaluate_logical_eager(locs, s, left, operator, right) ==
    Try(evaluate(locs, s, left), LAMBDA s1, l :
        Try(evaluate(locs, s1, right), LAMBDA s2, r :
            CASE operator.typ = "Or" -> IF is_truthy(l) THEN Ok(s2, l) ELSE Ok(s2, r)
              [] operator.typ = "And" -> IF ~is_truthy(l) THEN Ok(s2, l) ELSE Ok(s2, r)
              [] OTHER -> Panic(s2, "Invalid logical operator")))

evaluate_logical(locs, s, left, operator, right) ==
    Try(evaluate(locs, s, left), LAMBDA s1, l :
        CASE operator.typ = "Or" ->
                IF is_truthy(l) THEN Ok(s1, l) ELSE evaluate(locs, s1, right)
          [] operator.typ = "And" ->
                IF ~is_truthy(l) THEN Ok(s1, l) ELSE evaluate(locs, s1, right)
          [] OTHER -> Panic(s1, "Invalid logical operator"))

evaluate_get(locs, s, object, name) ==
    Try(evaluate(locs, s, object), LAMBDA s1, o :
        IF o.t = "Instance" THEN LoxInstance_get(s1, o.inst, name)
        ELSE Err(s1, "Only instances have properties."))

evaluate_set(locs, s, object, name, value) ==
    Try(evaluate(locs, s, object), LAMBDA s1, o :
        IF o.t # "Instance" THEN Err(s1, "Only instances have fields.")
        ELSE Try(evaluate(locs, s1, value), LAMBDA s2, v :
                 Ok(LoxInstance_set(s2, o.inst, name, v), v)))

\* evaluate_super with the method looked up on the class of `this`
evaluate_super_dynamic(locs, s, expr, method) ==
    LET distance == get_distance(locs, expr)
    IN IF distance = None THEN Panic(s, "Superclass is registered in resolver")
       ELSE Try(get_at(Resolved(s, expr, distance.depth), s.environment, distance.depth, "super"),
                LAMBDA s1, super_class :
           IF distance.depth = 0 THEN Panic(s1, "attempt to subtract with overflow")
           ELSE Try(get_at(s1, s1.environment, distance.depth - 1, "this"),
                    LAMBDA s2, this_instance :
               LET m == find_method(s2, s2.insts[this_instance.inst].class, method.lexeme)
               IN IF m = None THEN Err(s2, "Undefined property '" \o method.lexeme \o "'.")
                  ELSE bind(s2, m, this_instance.inst)))

evaluate_super(locs, s, expr, method) ==
    LET distance == get_distance(locs, expr)
    IN IF distance = None THEN Panic(s, "Superclass is registered in resolver")
       ELSE Try(get_at(Resolved(s, expr, distance.depth), s.environment, distance.depth, "super"),
                LAMBDA s1, super_class :
           IF ~(super_class.t = "Callable" /\ super_class.c = "Class")
           THEN Panic(s1, "We must get class when asking fro 'super'")
           ELSE IF distance.depth = 0 THEN Panic(s1, "attempt to subtract with overflow")
           ELSE Try(get_at(s1, s1.environment, distance.depth - 1, "this"),
                    LAMBDA s2, this_instance :
               IF this_instance.t # "Instance"
               THEN Panic(s2, "We must get instance when asking for 'this'")
               ELSE LET m == find_method(s2, super_class.class, method.lexeme)
                    IN IF m = None THEN Err(s2, "Undefined property '" \o method.lexeme \o "'.")
                       ELSE bind(s2, m, this_instance.inst)))

\* the loop over the arguments in evaluate_call; val is the list of values
evaluate_args(locs, s, arguments, args) ==
    IF arguments = <<>> THEN Ok(s, args)
    ELSE Try(evaluate(locs, s, Head(arguments)), LAMBDA s1, a :
             evaluate_args(locs, s1, Tail(arguments), Append(args, a)))

\* the match on the result of execute_block in call_function
returned(res) ==
    CASE res.tag = "ok" -> Ok(res.st, VNil)
      [] res.tag = "ret" -> Ok(res.st, res.val)
      [] OTHER -> res

\* call_function with the new environment enclosed by the caller's current
\* environment instead of the closure
call_function_dynamic(locs, s, declaration, arguments, closure) ==
    LET s1 == with_enclosing(s, s.environment)
        environment == NewEnv(s1)
        s2 == Log(define_params(s1, environment, declaration.params, arguments),
                  [e |-> "call_function", name |-> declaration.name.lexeme,
                   environment |-> environment, closure |-> closure])
    IN Left(returned(execute_block(locs, s2, declaration.body, environment)),
            "call_function", s.environment)

\* call_function that hands a Return on to its caller like any other error
call_function_uncaught(locs, s, declaration, arguments, closure) ==
    LET s1 == with_enclosing(s, closure)
        environment == NewEnv(s1)
        s2 == Log(define_params(s1, environment, declaration.params, arguments),
                  [e |-> "call_function", name |-> declaration.name.lexeme,
                   environment |-> environment, closure |-> closure])
    IN Left(execute_block(locs, s2, declaration.body, environment),
            "call_function", s.environment)

\* LoxCallable::call_function; LoxFunction::call is the same code
call_function(locs, s, declaration, arguments, closure) ==
    LET s1 == with_enclosing(s, closure)
        environment == NewEnv(s1)
        s2 == Log(define_params(s1, environment, declaration.params, arguments),
                  [e |-> "call_function", name |-> declaration.name.lexeme,
                   environment |-> environment, closure |-> closure])
    IN Left(returned(execute_block(locs, s2, declaration.body, environment)),
            "call_function", s.environment)

LoxFunction_call(locs, s, function, arguments) ==
    call_function(locs, s, function.declaration, arguments, function.closure)

\* LoxClass::call (class.rs)
LoxClass_call(locs, s, class, arguments) ==
    LET s1 == LoxInstance_new(s, class)
        instance == NewInstance(s1)
        initializer == find_method(s1, class, "init")
    IN IF initializer # None
       THEN Try(bind(s1, initializer, instance), LAMBDA s2, f :
                Try(LoxFunction_call(locs, s2, f, arguments), LAMBDA s3, v :
                    Ok(s3, VInstance(instance))))
       ELSE Ok(s1, VInstance(instance))

\* LoxCallable::call
LoxCallable_call(locs, s, callee, arguments) ==
    CASE callee.c = "Clock" -> Ok(s, VNum(s.now))
      [] callee.c = "LoxFunction" ->
            call_function(locs, s, callee.declaration, arguments, callee.closure)
      [] callee.c = "Class" ->
            LET s1 == LoxInstance_new(s, callee.class)
            IN Ok(s1, VInstance(NewInstance(s1)))

evaluate_call(locs, s, callee, paren, arguments) ==
    Try(evaluate(locs, s, callee), LAMBDA s1, c :
        Try(evaluate_args(locs, s1, arguments, <<>>), LAMBDA s2, args :
            IF c.t # "Callable"
            THEN Err(s2, "Can only call functions and classes.")
            ELSE IF arity(s2, c) # Len(args)
            THEN Err(s2, "Expected " \o ToString(arity(s2, c))
                         \o " arguments but got " \o ToString(Len(args)) \o ".")
            ELSE LoxCallable_call(locs, s2, c, args)))

evaluate(locs, s0, expr) ==
    LET s == Log(s0, [e |-> "evaluate", k |-> expr.k])
    IN CASE expr.k = "Grouping" -> evaluate(locs, s, expr.expression)
         [] expr.k = "Literal" -> Ok(s, FromLiteral(expr.value))
         [] expr.k = "Unary" -> evaluate_unary(locs, s, expr.operator, expr.right)
         [] expr.k = "Binary" -> evaluate_binary(locs, s, expr.left, expr.operator, expr.right)
         [] expr.k = "Variable" -> lookup_variable(locs, s, expr, expr.name)
         [] expr.k = "Assign" -> assign_expr(locs, s, expr, expr.name, expr.value)
         [] expr.k = "Logical" -> evaluate_logical(locs, s, expr.left, expr.operator, expr.right)
         [] expr.k = "Call" -> evaluate_call(locs, s, expr.callee, expr.paren, expr.arguments)
         [] expr.k = "Get" -> evaluate_get(locs, s, expr.object, expr.name)
         [] expr.k = "Set" -> evaluate_set(locs, s, expr.object, expr.name, expr.value)
         [] expr.k = "This" -> lookup_variable(locs, s, expr, expr.keyword)
         [] expr.k = "Super" -> evaluate_super(locs, s, expr, expr.method)

\* the loop over the methods in evaluate_class: the method table
class_methods(s, methods, meth) ==
    IF methods = <<>> THEN meth
    ELSE LET method == Head(methods)
             is_initializer == method.name.lexeme = "init"
             function == LoxFunction_new(method, s.environment)
         IN class_methods(s, Tail(methods), insert(meth, method.name.lexeme, function))

\* the environment that holds `super`, made current, when there is a superclass
super_environment(s, super_class) ==
    IF super_class # 0
    THEN Environment_define([with_enclosing(s, s.environment) EXCEPT !.environment = Len(s.envs) + 1],
                            Len(s.envs) + 1, "super", VClass(super_class))
    ELSE s

\* LoxClass::new, put on the heap of classes
LoxClass_new(s, name, methods, super_class) ==
    [s EXCEPT !.classes = Append(@, [name |-> name, methods |-> methods, super_class |-> super_class])]

evaluate_class(locs, s, name, super_class, methods) ==
    LET \* the scope guard: runs on every way out once `super` has its environment
        guard(res, has_super) ==
            IF has_super
            THEN [res EXCEPT !.st.environment = res.st.envs[res.st.environment].enclosing]
            ELSE res
    IN Left(Try(IF super_class # None
                THEN Try(evaluate(locs, s, [k |-> "Variable", name |-> super_class]),
                         LAMBDA s1, class :
                             IF class.t = "Callable" /\ class.c = "Class"
                             THEN Ok(s1, class.class)
                             ELSE Err(s1, "Superclass must be a class."))
                ELSE Ok(s, 0),
                LAMBDA s2, sup :
                    Let(super_environment(Environment_define(s2, s2.environment, name.lexeme, VNil), sup),
                        LAMBDA s3 :
                            Let(LoxClass_new(s3, name.lexeme, class_methods(s3, methods, EmptyMap), sup),
                                LAMBDA s4 :
                                    guard(Environment_assign(s4, s4.environment, name, VClass(Len(s4.classes))),
                                          sup # 0)))),
            "evaluate_class", s.environment)

execute_stmts(locs, s, statements) ==
    IF statements = <<>> THEN Ok(s, VNil)
    ELSE Try(execute(locs, s, Head(statements)), LAMBDA s1, unit :
             execute_stmts(locs, s1, Tail(statements)))

\* execute_block that restores the environment after the loop only, not
\* on the early exit of `?`
execute_block_noguard(locs, s, statements, environment) ==
    LET prev_env == s.environment
        guard(res) == IF res.tag = "ok" THEN [res EXCEPT !.st.environment = prev_env] ELSE res
    IN Left(guard(execute_stmts(locs, [s EXCEPT !.environment = environment], statements)),
            "execute_block", prev_env)

execute_block(locs, s, statements, environment) ==
    LET prev_env == s.environment
        \* the scope guard: runs on every way out
        guard(res) == [res EXCEPT !.st.environment = prev_env]
    IN Left(guard(execute_stmts(locs, [s EXCEPT !.environment = environment], statements)),
            "execute_block", prev_env)

execute_while(locs, s, condition, body) ==
    Try(evaluate(locs, s, condition), LAMBDA s1, c :
        IF ~is_truthy(c) THEN Ok(s1, VNil)
        ELSE Try(execute(locs, s1, body), LAMBDA s2, unit :
                 execute_while(locs, s2, condition, body)))

execute(locs, s0, stmt) ==
    LET s == Log(s0, [e |-> "execute", k |-> stmt.k])
    IN CASE stmt.k = "Expression" ->
                Try(evaluate(locs, s, stmt.expr), LAMBDA s1, v : Ok(s1, VNil))
         [] stmt.k = "Print" ->
                Try(evaluate(locs, s, stmt.expr), LAMBDA s1, val :
                    Ok(Log(s1, [e |-> "print", val |-> val]), VNil))
         [] stmt.k = "Var" ->
                Try(IF stmt.initializer # None THEN evaluate(locs, s, stmt.initializer)
                    ELSE Ok(s, VNil),
                    LAMBDA s1, val :
                        Ok(Environment_define(s1, s1.environment, stmt.name.lexeme, val), VNil))
         [] stmt.k = "Block" ->
                LET a == with_enclosing(s, s.environment)
                IN execute_block(locs, a, stmt.statements, NewEnv(a))
         [] stmt.k = "If" ->
                Try(evaluate(locs, s, stmt.condition), LAMBDA s1, cond_val :
                    IF is_truthy(cond_val) THEN execute(locs, s1, stmt.then_branch)
                    ELSE IF stmt.else_branch # None THEN execute(locs, s1, stmt.else_branch)
                    ELSE Ok(s1, VNil))
         [] stmt.k = "While" -> execute_while(locs, s, stmt.condition, stmt.body)
         [] stmt.k = "Function" ->
                LET func == LoxFunction_new(stmt.decl, s.environment)
                IN Ok(Environment_define(s, s.environment, stmt.decl.name.lexeme, func), VNil)
         [] stmt.k = "Return" ->
                Try(IF stmt.value_expr # None THEN evaluate(locs, s, stmt.value_expr)
                    ELSE Ok(s, VNil),
                    LAMBDA s1, value : Ret(s1, value))
         [] stmt.k = "Class" -> evaluate_class(locs, s, stmt.name, stmt.super_class, stmt.methods)

\* ------------------------------------------------------------------------
\* The programs
\* ------------------------------------------------------------------------

\* parameter names and argument values of the families below
MaxParams == 2
ParamNames == <<"p", "q", "r", "s">>
ArgValues == <<Num(7), Num(8), Num(9), Num(10)>>

\* fun make(){ var i = 0; fun inc(){ i = i + 1; return i; } return inc; }
\* var c1 = make(); var c2 = make(); print c1(); print c1(); print c2();
PCounter ==
    << SFunction("make", <<>>, <<
           SVar("i", Num(0)),
           SFunction("inc", <<>>, <<
               SExpression(Assign("i", Binary(Variable("i"), "Plus", Num(1)))),
               SReturn(Variable("i")) >>),
           SReturn(Variable("inc")) >>),
       SVar("c1", Call(Variable("make"), <<>>)),
       SVar("c2", Call(Variable("make"), <<>>)),
       SPrint(Call(Variable("c1"), <<>>)),
       SPrint(Call(Variable("c1"), <<>>)),
       SPrint(Call(Variable("c2"), <<>>)) >>

\* var a = 1;
\* { var b = 2; { print a + b; print nil + 1; print 3; } print 4; }
\* print a;
\* fun f(x) { { if (x) { return 1; } } print "s" - 1; return 2; }
\* print f(true); print f(false); print 5;
\* { { print 8; } print f(false); print 9; }
\* { var n = 2; class X {} class Y < X { m() { return 1; } } class Z < n {} print 6; }
\* print 7;
PBlocks ==
    << SVar("a", Num(1)),
       SBlock(<< SVar("b", Num(2)),
                 SBlock(<< SPrint(Binary(Variable("a"), "Plus", Variable("b"))),
                           SPrint(Binary(Literal(LNil), "Plus", Num(1))),
                           SPrint(Num(3)) >>),
                 SPrint(Num(4)) >>),
       SPrint(Variable("a")),
       SFunction("f", <<"x">>, <<
           SBlock(<< SIf(Variable("x"), SBlock(<< SReturn(Num(1)) >>), None) >>),
           SPrint(Binary(Str("s"), "Minus", Num(1))),
           SReturn(Num(2)) >>),
       SPrint(Call(Variable("f"), <<Literal(LBool(TRUE))>>)),
       SPrint(Call(Variable("f"), <<Literal(LBool(FALSE))>>)),
       SPrint(Num(5)),
       SBlock(<< SBlock(<< SPrint(Num(8)) >>),
                 SPrint(Call(Variable("f"), <<Literal(LBool(FALSE))>>)),
                 SPrint(Num(9)) >>),
       SBlock(<< SVar("n", Num(2)),
                 SClass("X", "", <<>>),
                 SClass("Y", "X", << FuncDeclaration("m", <<>>, << SReturn(Num(1)) >>) >>),
                 SClass("Z", "n", <<>>),
                 SPrint(Num(6)) >>),
       SPrint(Num(7)) >>

\* class A { m() { return "A"; } who() { return this; } }
\* class B < A { m() { return "B"; } test() { return super.m(); } me() { return super.who(); } }
\* class C < B { m() { return "C"; } }     (only when withC)
\* var c = C();  (or B())   print c.test(); print c.me(); print c.m();
PSuper(withC, inBlock) ==
    LET body == << SClass("A", "", << FuncDeclaration("m", <<>>, << SReturn(Str("A")) >>),
                                       FuncDeclaration("who", <<>>, << SReturn(This) >>) >>),
                   SClass("B", "A", << FuncDeclaration("m", <<>>, << SReturn(Str("B")) >>),
                                        FuncDeclaration("test", <<>>, << SReturn(Call(Super("m"), <<>>)) >>),
                                        FuncDeclaration("me", <<>>, << SReturn(Call(Super("who"), <<>>)) >>) >>) >>
                \o (IF withC THEN << SClass("C", "B", << FuncDeclaration("m", <<>>, << SReturn(Str("C")) >>) >>) >>
                    ELSE <<>>)
                \o << SVar("c", Call(Variable(IF withC THEN "C" ELSE "B"), <<>>)),
                      SPrint(Call(Get(Variable("c"), "test"), <<>>)),
                      SPrint(Call(Get(Variable("c"), "me"), <<>>)),
                      SPrint(Call(Get(Variable("c"), "m"), <<>>)) >>
    IN IF inBlock THEN << SBlock(body), SPrint(Num(0)) >> ELSE body

\* class Base { init(p..) { this.x = 1; } }         (where = "inherited")
\* class K < Base {}
\* class K { init(p..) { this.x = 1; } }            (where = "own")
\* class K {}                                        (where = "none")
\* var k = K(7, ..);  print k; print k.x;
PClassCall(where, n, m) ==
    LET init == FuncDeclaration("init", SubSeq(ParamNames, 1, n),
                                << SExpression(Set(This, "x", Num(1))) >>)
        decls == CASE where = "inherited" -> << SClass("Base", "", <<init>>), SClass("K", "Base", <<>>) >>
                   [] where = "own" -> << SClass("K", "", <<init>>) >>
                   [] where = "none" -> << SClass("K", "", <<>>) >>
    IN decls \o << SVar("k", Call(Variable("K"), SubSeq(ArgValues, 1, m))),
                   SPrint(Variable("k")),
                   SPrint(Get(Variable("k"), "x")) >>

\* class A { init() { this.x = 1; return; } }     (the return only when bare)
\* var a = A(); print a.init(); print a.x;
PInit(bare) ==
    << SClass("A", "", << FuncDeclaration("init", <<>>,
                             << SExpression(Set(This, "x", Num(1))) >>
                             \o (IF bare THEN << SReturn(None) >> ELSE <<>>)) >>),
       SVar("a", Call(Variable("A"), <<>>)),
       SPrint(Call(Get(Variable("a"), "init"), <<>>)),
       SPrint(Get(Variable("a"), "x")) >>

\* var a = "outer"; { var a = a; print a; }       (local, the outer one global)
\* { var a = "outer"; { var a = a; print a; } }   (local, the outer one local)
\* var a = "outer"; var a = a; print a;           (global)
PSelfInit(local, outerLocal) ==
    LET inner == SBlock(<< SVar("a", Variable("a")), SPrint(Variable("a")) >>)
    IN IF ~local THEN << SVar("a", Str("outer")), SVar("a", Variable("a")), SPrint(Variable("a")) >>
       ELSE IF outerLocal THEN << SBlock(<< SVar("a", Str("outer")), inner >>) >>
       ELSE << SVar("a", Str("outer")), inner >>

\* class Oops < Oops { m() { return this; } }   (at top level, or in a block)
\* print 1;
PSelfInherit(inBlock) ==
    LET c == SClass("Oops", "Oops", << FuncDeclaration("m", <<>>, << SReturn(This) >>) >>)
    IN IF inBlock THEN << SBlock(<< c >>), SPrint(Num(1)) >> ELSE << c, SPrint(Num(1)) >>

\* var a = "global";
\* { fun show() { print a; } show(); var a = "block"; show(); print a;
\*   var i = 0;
\*   while (i < 2) { { var j = i; fun g() { return j + i; } print g(); } i = i + 1; } }
\* class T { m() { fun inner() { return this; } return inner(); } }
\* class U < T { m() { fun inner() { return super.m(); } return inner(); } }
\* print T().m(); print U().m(); print clock();
PScopes ==
    << SVar("a", Str("global")),
       SBlock(<< SFunction("show", <<>>, << SPrint(Variable("a")) >>),
                 SExpression(Call(Variable("show"), <<>>)),
                 SVar("a", Str("block")),
                 SExpression(Call(Variable("show"), <<>>)),
                 SPrint(Variable("a")),
                 SVar("i", Num(0)),
                 SWhile(Binary(Variable("i"), "Less", Num(2)),
                        SBlock(<< SBlock(<< SVar("j", Variable("i")),
                                            SFunction("g", <<>>, << SReturn(Binary(Variable("j"), "Plus", Variable("i"))) >>),
                                            SPrint(Call(Variable("g"), <<>>)) >>),
                                  SExpression(Assign("i", Binary(Variable("i"), "Plus", Num(1)))) >>)) >>),
       SClass("T", "", << FuncDeclaration("m", <<>>, <<
                              SFunction("inner", <<>>, << SReturn(This) >>),
                              SReturn(Call(Variable("inner"), <<>>)) >>) >>),
       SClass("U", "T", << FuncDeclaration("m", <<>>, <<
                               SFunction("inner", <<>>, << SReturn(Call(Super("m"), <<>>)) >>),
                               SReturn(Call(Variable("inner"), <<>>)) >>) >>),
       SPrint(Call(Get(Call(Variable("T"), <<>>), "m"), <<>>)),
       SPrint(Call(Get(Call(Variable("U"), <<>>), "m"), <<>>)),
       SPrint(Call(Variable("clock"), <<>>)) >>

\* { var a = 1; { print a; { print a; } } print a; }   all on one line
PTwins ==
    << SBlock(<< SVar("a", Num(1)),
                 SBlock(<< SPrint(Variable("a")),
                           SBlock(<< SPrint(Variable("a")) >>) >>),
                 SPrint(Variable("a")) >>) >>

\* the binary operators and the operands of the family below
Operators ==
    <<"Plus", "Minus", "Star", "Slash", "Less", "LessEqual", "Greater", "GreaterEqual",
      "EqualEqual", "BangEqual">>
Operands ==
    << Literal(LNil), Literal(LBool(TRUE)), Num(0), Num(1), Str("x"),
       Variable("f"), Variable("K"), Variable("j"), Variable("k") >>

\* fun f() {}  class K {}
\* var j = K(); j.x = 1; j.f = f;   var k = K(); k.x = 2; k.f = f;
\* print <left> <op> <right>;   print 1;
PBinary(op, left, right) ==
    << SFunction("f", <<>>, <<>>),
       SClass("K", "", <<>>),
       SVar("j", Call(Variable("K"), <<>>)),
       SExpression(Set(Variable("j"), "x", Num(1))),
       SExpression(Set(Variable("j"), "f", Variable("f"))),
       SVar("k", Call(Variable("K"), <<>>)),
       SExpression(Set(Variable("k"), "x", Num(2))),
       SExpression(Set(Variable("k"), "f", Variable("f"))),
       SPrint(Binary(Operands[left], Operators[op], Operands[right])),
       SPrint(Num(1)) >>

\* the left operands of the family below: nil and false, then values that
\* count as true
LogicalLefts ==
    << LNil, LBool(FALSE), LBool(TRUE), LNum(0), LText(""), LNum(1), LText("x") >>

\* var n = 0;  fun side() { n = n + 1; return "side"; }
\* print <left> or side();   (or: and)      print n;
PLogical(op, left) ==
    << SVar("n", Num(0)),
       SFunction("side", <<>>, << SExpression(Assign("n", Binary(Variable("n"), "Plus", Num(1)))),
                                  SReturn(Str("side")) >>),
       SPrint(Logical(Literal(LogicalLefts[left]), op, Call(Variable("side"), <<>>))),
       SPrint(Variable("n")) >>

\* return statements in and out of functions, methods and initializers
Return1 == SReturn(Num(1))
Return2 == SReturn(Num(2))
ReturnInG == SFunction("g", <<>>, << Return1 >>)
ClassA(methods) == SClass("A", "", methods)
PReturns ==
    << << Return1 >>,                                                \* return 1;
       << SReturn(None) >>,                                          \* return;
       << SBlock(<< SIf(Literal(LBool(TRUE)), SReturn(None), None) >>) >>,
                                                                     \* { if (true) return; }
       << SFunction("f", <<>>, << Return1 >>) >>,                    \* fun f() { return 1; }
       << SFunction("f", <<>>, << Return1 >>), Return2 >>,           \* fun f() { return 1; } return 2;
       << SFunction("f", <<>>, << ReturnInG, Return2 >>) >>,         \* fun f() { fun g() { return 1; } return 2; }
       << ClassA(<< FuncDeclaration("init", <<>>, << Return1 >>) >>) >>,
                                                                     \* class A { init() { return 1; } }
       << ClassA(<< FuncDeclaration("init", <<>>, << SReturn(None) >>) >>) >>,
                                                                     \* class A { init() { return; } }
       << ClassA(<< FuncDeclaration("init", <<>>, << ReturnInG >>) >>) >>,
                                                                     \* class A { init() { fun g() { return 1; } } }
       << ClassA(<< FuncDeclaration("init", <<>>, << ReturnInG, Return2 >>) >>) >>,
                                                                     \* class A { init() { fun g() { return 1; } return 2; } }
       << ClassA(<< FuncDeclaration("init", <<>>,
                      << SWhile(Literal(LBool(FALSE)), SBlock(<< Return1 >>)) >>) >>) >>,
                                                                     \* class A { init() { while (false) { return 1; } } }
       << ClassA(<< FuncDeclaration("m", <<>>, << Return1 >>) >>), SReturn(None) >>,
                                                                     \* class A { m() { return 1; } } return;
       << ClassA(<< FuncDeclaration("m", <<>>, << Return1 >>),
                    FuncDeclaration("init", <<>>, << SReturn(None) >>) >>) >>,
                                                                     \* class A { m() { return 1; } init() { return; } }
       << SFunction("init", <<>>, << Return1 >>) >> >>               \* fun init() { return 1; }

\* this and super in and out of classes with and without a superclass
SuperM == SReturn(Call(Super("m"), <<>>))
ClassB(methods) == SClass("B", "A", methods)
PClasses ==
    << << SPrint(This) >>,                                           \* print this;
       << SFunction("f", <<>>, << SReturn(This) >>) >>,              \* fun f() { return this; }
       << SPrint(Super("m")) >>,                                     \* print super.m;
       << SFunction("f", <<>>, << SuperM >>) >>,                     \* fun f() { return super.m(); }
       << ClassA(<< FuncDeclaration("m", <<>>, << SuperM >>) >>) >>, \* class A { m() { return super.m(); } }
       << ClassA(<<>>),
          ClassB(<< FuncDeclaration("m", <<>>,
                      << SClass("C", "", << FuncDeclaration("m", <<>>, << SuperM >>) >>) >>) >>) >>,
                                  \* class A {} class B < A { m() { class C { m() { return super.m(); } } } }
       << ClassA(<< FuncDeclaration("m", <<>>, << SReturn(This) >>) >>) >>,
                                                                     \* class A { m() { return this; } }
       << ClassA(<<>>), ClassB(<< FuncDeclaration("m", <<>>, << SuperM >>) >>) >>,
                                  \* class A {} class B < A { m() { return super.m(); } }
       << ClassA(<<>>), SPrint(This) >>,                             \* class A {} print this;
       << ClassA(<<>>),
          ClassB(<< FuncDeclaration("m", <<>>, << SClass("C", "", <<>>), SuperM >>) >>) >>,
                                  \* class A {} class B < A { m() { class C {} return super.m(); } }
       << ClassA(<<>>), ClassB(<<>>),
          SClass("D", "", << FuncDeclaration("m", <<>>, << SuperM >>) >>) >>,
                                  \* class A {} class B < A {} class D { m() { return super.m(); } }
       << ClassA(<< FuncDeclaration("m", <<>>, << SClass("C", "", <<>>), SReturn(This) >>) >>) >>,
                                  \* class A { m() { class C {} return this; } }
       << ClassA(<<>>), ClassB(<< FuncDeclaration("m", <<>>, <<>>) >>), SPrint(Super("m")) >>,
                                  \* class A {} class B < A { m() {} } print super.m;
       << ClassA(<< FuncDeclaration("m", <<>>,
                      << SFunction("g", <<>>, << SReturn(This) >>) >>) >>) >> >>
                                  \* class A { m() { fun g() { return this; } } }

\* programs the resolver rejects, with references before and after the
\* place of the error
PFailFast ==
    << << SBlock(<< SVar("a", Num(1)), SPrint(Variable("a")), SVar("a", Num(2)),
                    SPrint(Variable("a")), SExpression(Assign("a", Num(3))) >>),
          SPrint(Num(1)) >>,
                        \* { var a = 1; print a; var a = 2; print a; a = 3; } print 1;
       << SBlock(<< SVar("a", None), SExpression(Assign("a", This)), SPrint(Variable("a")) >>) >>,
                        \* { var a; a = this; print a; }
       << ClassA(<< FuncDeclaration("m", <<>>, << SVar("t", None), SPrint(Variable("t")) >>),
                    FuncDeclaration("init", <<>>, << SVar("u", None), SReturn(Variable("u")),
                                                     SPrint(This), SPrint(Variable("u")) >>) >>) >>,
                        \* class A { m() { var t; print t; } init() { var u; return u; print this; print u; } }
       << SFunction("f", << "x" >>, << SBlock(<< SVar("x", Variable("x")), SPrint(Variable("x")) >>),
                                      SPrint(Variable("x")) >>),
          SBlock(<< SVar("h", None), SPrint(Variable("h")) >>) >>,
                        \* fun f(x) { { var x = x; print x; } print x; } { var h; print h; }
       << SBlock(<< SVar("a", None),
                    SBlock(<< SPrint(Variable("a")), SPrint(Super("m")), SPrint(This) >>),
                    SPrint(Variable("a")) >>),
          SBlock(<< SVar("b", None), SPrint(Variable("b")) >>) >>,
                        \* { var a; { print a; print super.m; print this; } print a; } { var b; print b; }
       << SBlock(<< SVar("a", None),
                    SWhile(Variable("a"),
                           SBlock(<< SIf(Variable("a"), SBlock(<< SReturn(None) >>),
                                         SBlock(<< SPrint(Variable("a")) >>)) >>)),
                    SPrint(Variable("a")) >>) >>,
                        \* { var a; while (a) { if (a) { return; } else { print a; } } print a; }
       << SBlock(<< ClassA(<<>>),
                    ClassB(<< FuncDeclaration("m", <<>>, << SExpression(Call(Super("m"), <<>>)),
                                                           SVar("k", None), SVar("k", None),
                                                           SPrint(This) >>),
                              FuncDeclaration("n", <<>>, << SPrint(This) >>) >>),
                    SPrint(Variable("A")) >>) >>,
                        \* { class A {} class B < A { m() { super.m(); var k; var k; print this; }
                        \*                            n() { print this; } } print A; }
       << SBlock(<< SVar("a", None), SPrint(Variable("a")) >>),
          SFunction("f", << "p", "p" >>, << SPrint(Variable("p")) >>),
          SBlock(<< SVar("b", None), SPrint(Variable("b")) >>) >> >>
                        \* { var a; print a; } fun f(p, p) { print p; } { var b; print b; }

\* a chain of three classes, m defined by those whose bit is set in mask:
\* class A { m() { return "A"; } } class B < A { m() { return "B"; } }
\* class C < B { m() { return "C"; } }
\* print C().m(); print B().m(); print A().m();
ChainNames == <<"A", "B", "C">>
Defines(mask, i) == (mask \div (2 ^ (i - 1))) % 2 = 1
ChainClass(mask, i) ==
    SClass(ChainNames[i], IF i = 1 THEN "" ELSE ChainNames[i - 1],
           IF Defines(mask, i)
           THEN << FuncDeclaration("m", <<>>, << SReturn(Str(ChainNames[i])) >>) >>
           ELSE <<>>)
PChain(mask) ==
    << ChainClass(mask, 1), ChainClass(mask, 2), ChainClass(mask, 3),
       SPrint(Call(Get(Call(Variable("C"), <<>>), "m"), <<>>)),
       SPrint(Call(Get(Call(Variable("B"), <<>>), "m"), <<>>)),
       SPrint(Call(Get(Call(Variable("A"), <<>>), "m"), <<>>)) >>

\* class K { m() { return this; } }        (m only when withM)
\* var a = K(); var b = K();
\* print a.m(); a.m = "field"; print a.m; print b.m(); print b.zz; print a.m();
PFields(withM) ==
    << SClass("K", "", IF withM THEN << FuncDeclaration("m", <<>>, << SReturn(This) >>) >> ELSE <<>>),
       SVar("a", Call(Variable("K"), <<>>)),
       SVar("b", Call(Variable("K"), <<>>)),
       SPrint(Call(Get(Variable("a"), "m"), <<>>)),
       SExpression(Set(Variable("a"), "m", Str("field"))),
       SPrint(Get(Variable("a"), "m")),
       SPrint(Call(Get(Variable("b"), "m"), <<>>)),
       SPrint(Get(Variable("b"), "zz")),
       SPrint(Call(Get(Variable("a"), "m"), <<>>)) >>

\* fun inner(n) { print "in";
\*                while (true) { { if (n) { return 7; } print "loop"; n = true; } }
\*                print "never"; }
\* fun outer() { var r = inner(false); print r; print "after"; return; print "never"; }
\* fun fall() { print "fall"; }
\* print outer(); print fall(); print 5;
\* (return; instead of return 7; when bare)
PUnwind(bare) ==
    << SFunction("inner", << "n" >>, <<
           SPrint(Str("in")),
           SWhile(Literal(LBool(TRUE)),
                  SBlock(<< SBlock(<< SIf(Variable("n"),
                                          SBlock(<< SReturn(IF bare THEN None ELSE Num(7)) >>),
                                          None),
                                      SPrint(Str("loop")),
                                      SExpression(Assign("n", Literal(LBool(TRUE)))) >>) >>)),
           SPrint(Str("never")) >>),
       SFunction("outer", <<>>, <<
           SVar("r", Call(Variable("inner"), << Literal(LBool(FALSE)) >>)),
           SPrint(Variable("r")),
           SPrint(Str("after")),
           SReturn(None),
           SPrint(Str("never")) >>),
       SFunction("fall", <<>>, << SPrint(Str("fall")) >>),
       SPrint(Call(Variable("outer"), <<>>)),
       SPrint(Call(Variable("fall"), <<>>)),
       SPrint(Num(5)) >>

\* x declared at the levels whose bit is set in mask (level 0 is global):
\* var x = 0; { var x = 1; { var x = 2; { x = 9; } print x; } print x; } print x;
Levels == <<0, 1, 2>>
DeclaredAt(mask, level) == (mask \div (2 ^ level)) % 2 = 1
VarX(mask, level) == IF DeclaredAt(mask, level) THEN << SVar("x", Num(level)) >> ELSE <<>>
PAssign(mask) ==
    VarX(mask, 0)
    \o << SBlock(VarX(mask, 1)
                 \o << SBlock(VarX(mask, 2)
                              \o << SBlock(<< SExpression(Assign("x", Num(9))) >>),
                                    SPrint(Variable("x")) >>),
                       SPrint(Variable("x")) >>),
          SPrint(Variable("x")) >>

\* declarations of a name a scope already holds, or not
FunA == SFunction("a", <<>>, <<>>)
ClassNamedA == SClass("a", "", <<>>)
VarA == SVar("a", None)
PDeclare ==
    << << SBlock(<< VarA, VarA >>) >>,                               \* { var a; var a; }
       << SBlock(<< SVar("a", Num(1)), SVar("a", Num(2)) >>) >>,      \* { var a = 1; var a = 2; }
       << SBlock(<< VarA, FunA >>) >>,                               \* { var a; fun a() {} }
       << SBlock(<< FunA, VarA >>) >>,                               \* { fun a() {} var a; }
       << SBlock(<< VarA, ClassNamedA >>) >>,                        \* { var a; class a {} }
       << SBlock(<< ClassNamedA, ClassNamedA >>) >>,                 \* { class a {} class a {} }
       << SBlock(<< FunA, FunA >>) >>,                               \* { fun a() {} fun a() {} }
       << SFunction("f", << "a", "a" >>, <<>>) >>,                   \* fun f(a, a) {}
       << SFunction("f", << "a" >>, << VarA >>) >>,                  \* fun f(a) { var a; }
       << ClassA(<< FuncDeclaration("m", << "b", "a", "a" >>, <<>>) >>) >>,
                                                                     \* class A { m(b, a, a) {} }
       << SBlock(<< VarA, SBlock(<< VarA >>) >>) >>,                 \* { var a; { var a; } }
       << VarA, VarA, FunA, FunA, ClassNamedA, ClassNamedA, VarA >>, \* var a; var a; fun a() {} ...
       << SFunction("f", << "a" >>, << SBlock(<< VarA >>) >>) >>,    \* fun f(a) { { var a; } }
       << SBlock(<< VarA, SFunction("f", << "a" >>, <<>>) >>) >>,    \* { var a; fun f(a) {} }
       << SFunction("a", << "a" >>, <<>>) >>,                        \* fun a(a) {}
       << SBlock(<< SFunction("a", << "a" >>, << SBlock(<< ClassNamedA >>) >>) >>) >> >>
                                                                     \* { fun a(a) { { class a {} } } }

\* the id of the token of the second declaration, for those of PDeclare
\* that declare a name twice in one local scope: the first ten
RedeclaredAt == <<1, 1, 1, 1, 1, 1, 1, 2, 2, 4>>

\* var a = "global";
\* { fun show() { print a; }  fun set(v) { a = v; }
\*   show();  var a = "block";  show();  set("one");  print a;  show(); }
\* print a;
\* (without  var a = "block";  unless later)
PStatic(later) ==
    << SVar("a", Str("global")),
       SBlock(<< SFunction("show", <<>>, << SPrint(Variable("a")) >>),
                 SFunction("set", << "v" >>, << SExpression(Assign("a", Variable("v"))) >>),
                 SExpression(Call(Variable("show"), <<>>)) >>
              \o (IF later THEN << SVar("a", Str("block")) >> ELSE <<>>)
              \o << SExpression(Call(Variable("show"), <<>>)),
                    SExpression(Call(Variable("set"), << Str("one") >>)),
                    SPrint(Variable("a")),
                    SExpression(Call(Variable("show"), <<>>)) >>),
       SPrint(Variable("a")) >>

Flags == {0, 1}

\* the inputs: the name of a program and the parameters of its family
Inputs ==
    ({"counter", "blocks", "scopes", "twins"} \X {0} \X {0})
    \cup ({"binary"} \X (1..Len(Operators)) \X (0..(Len(Operands) * Len(Operands) - 1)))
    \cup ({"logical"} \X Flags \X (1..Len(LogicalLefts)))
    \cup ({"returns"} \X (1..Len(PReturns)) \X {0})
    \cup ({"classes"} \X (1..Len(PClasses)) \X {0})
    \cup ({"failfast"} \X (1..Len(PFailFast)) \X {0})
    \cup ({"declare"} \X (1..Len(PDeclare)) \X {0})
    \cup ({"chain"} \X (0..(2 ^ Len(ChainNames) - 1)) \X {0})
    \cup ({"assign"} \X (0..(2 ^ Len(Levels) - 1)) \X {0})
    \cup ({"selfinherit", "init", "fields", "unwind", "static"} \X Flags \X {0})
    \cup ({"super", "selfinit"} \X Flags \X Flags)
    \cup ({"none", "own", "inherited"} \X (0..MaxParams) \X (0..MaxParams))

Program(p) ==
    CASE p[1] = "counter" -> PCounter
      [] p[1] = "blocks" -> PBlocks
      [] p[1] = "scopes" -> PScopes
      [] p[1] = "twins" -> PTwins
      [] p[1] = "returns" -> PReturns[p[2]]
      [] p[1] = "classes" -> PClasses[p[2]]
      [] p[1] = "failfast" -> PFailFast[p[2]]
      [] p[1] = "declare" -> PDeclare[p[2]]
      [] p[1] = "chain" -> PChain(p[2])
      [] p[1] = "assign" -> PAssign(p[2])
      [] p[1] = "fields" -> PFields(p[2] = 1)
      [] p[1] = "static" -> PStatic(p[2] = 1)
      [] p[1] = "unwind" -> PUnwind(p[2] = 1)
      [] p[1] = "logical" -> PLogical(IF p[2] = 0 THEN "Or" ELSE "And", p[3])
      [] p[1] = "binary" -> PBinary(p[2], (p[3] \div Len(Operands)) + 1, (p[3] % Len(Operands)) + 1)
      [] p[1] = "selfinit" -> PSelfInit(p[2] = 1, p[3] = 1)
      [] p[1] = "selfinherit" -> PSelfInherit(p[2] = 1)
      [] p[1] = "init" -> PInit(p[2] = 1)
      [] p[1] = "super" -> PSuper(p[2] = 1, p[3] = 1)
      [] OTHER -> PClassCall(p[1], p[2], p[3])

ClockReadings == {100}

\* the orders of iteration of a HashMap that matter to a comparison
HashOrders == {"ne", "overflow"}

\* ------------------------------------------------------------------------
\* The scanner (scanner/mod.rs, scanner/keyword.rs, scanner/error.rs)
\* ------------------------------------------------------------------------

\* a source text is a sequence of chars; a char is a string of one ASCII
\* character, or the name of a code point that takes more than one byte
NUL == "U+0000"
E_ACUTE == "U+00E9"
EURO == "U+20AC"

\* the bytes of a char in UTF-8
len_utf8(ch) ==
    CASE ch = E_ACUTE -> 2
      [] ch = EURO -> 3
      [] OTHER -> 1

RECURSIVE String_len(_)
\* String::len: the length of the text in bytes, summed by halves
String_len(source) ==
    IF source = <<>> THEN 0
    ELSE IF Len(source) = 1 THEN len_utf8(source[1])
    ELSE String_len(SubSeq(source, 1, Len(source) \div 2))
         + String_len(SubSeq(source, Len(source) \div 2 + 1, Len(source)))

Digits == <<"0", "1", "2", "3", "4", "5", "6", "7", "8", "9">>

is_digit(ch) == \E i \in 1..Len(Digits) : Digits[i] = ch

Letters ==
    {"a", "b", "c", "d", "e", "f", "g", "h", "i", "j", "k", "l", "m", "n", "o", "p", "q",
     "r", "s", "t", "u", "v", "w", "x", "y", "z", E_ACUTE}

is_alphabetic(ch) == ch \in Letters

is_alpha(ch) == is_alphabetic(ch) \/ ch = "_"

is_alpha_numeric(ch) == is_alpha(ch) \/ is_digit(ch)

get_keywords ==
    { <<<<"a", "n", "d">>, "And">>, <<<<"c", "l", "a", "s", "s">>, "Class">>,
      <<<<"e", "l", "s", "e">>, "Else">>, <<<<"f", "a", "l", "s", "e">>, "False">>,
      <<<<"f", "o", "r">>, "For">>, <<<<"f", "u", "n">>, "Fun">>, <<<<"i", "f">>, "If">>,
      <<<<"n", "i", "l">>, "Nil">>, <<<<"o", "r">>, "Or">>,
      <<<<"p", "r", "i", "n", "t">>, "Print">>, <<<<"r", "e", "t", "u", "r", "n">>, "Return">>,
      <<<<"s", "u", "p", "e", "r">>, "Super">>, <<<<"t", "h", "i", "s">>, "This">>,
      <<<<"t", "r", "u", "e">>, "True">>, <<<<"v", "a", "r">>, "Var">>,
      <<<<"w", "h", "i", "l", "e">>, "While">> }

\* a TokenType: its variant and, for Identifier, String and Number, its value
TT(kind) == [kind |-> kind, val |-> <<>>]
TT_of(kind, val) == [kind |-> kind, val |-> val]

NoError == [line |-> 0, message |-> ""]
ScanError_new(line, message) == [line |-> line, message |-> message]

Scanner_new(source) ==
    [ source |-> source, tokens |-> <<>>, start |-> 0, current |-> 0, line |-> 1,
      errors |-> <<>>,          \* the local errors of scan_tokens
      counter |-> 0,            \* COUNTER of Token::new
      state |-> "scanning" ]    \* "scanning", "returned", "panicked"

is_at_end(sc) == sc.current >= String_len(sc.source)

\* source.chars().nth(i)
has_nth(source, i) == i < Len(source)
nth(source, i) == IF has_nth(source, i) THEN source[i + 1] ELSE NUL

peek(sc) == nth(sc.source, sc.current)

peek_next(sc) == nth(sc.source, sc.current + 1)

sub_string(sc, start, end) ==
    LET stop == IF end < Len(sc.source) THEN end ELSE Len(sc.source)
    IN IF start >= stop THEN <<>> ELSE SubSeq(sc.source, start + 1, stop)

add_token(sc, token_t) ==
    LET text == sub_string(sc, sc.start, sc.current)
        token == Token_new([id |-> 0, typ |-> token_t, lexeme |-> text, line |-> sc.line], sc.counter)
    IN [sc EXCEPT !.tokens = Append(@, token), !.counter = @ + 1]

matches(sc, match_ch) == has_nth(sc.source, sc.current) /\ sc.source[sc.current + 1] = match_ch

\* the scanner after match_then_advance and the token type added for its result
one_or_two(sc, match_ch, two, one) ==
    IF matches(sc, match_ch)
    THEN add_token([sc EXCEPT !.current = @ + 1], TT(two))
    ELSE add_token(sc, TT(one))

RECURSIVE comment(_)
\* the loop of a comment: to the end of the line
comment(sc) ==
    IF peek(sc) # "\n" /\ ~is_at_end(sc) THEN comment([sc EXCEPT !.current = @ + 1]) ELSE sc

RECURSIVE string_body(_)
\* the loop of parse_string
string_body(sc) ==
    IF peek(sc) # "\"" /\ ~is_at_end(sc)
    THEN string_body([sc EXCEPT !.line = IF peek(sc) = "\n" THEN @ + 1 ELSE @,
                                !.current = @ + 1])
    ELSE sc

parse_string(sc) ==
    Let(string_body(sc), LAMBDA s1 :
        IF is_at_end(s1)
        THEN [sc |-> s1, err |-> ScanError_new(s1.line, "Unterminated String"), panic |-> FALSE]
        ELSE [sc |-> add_token([s1 EXCEPT !.current = @ + 1],
                               TT_of("String", sub_string(s1, s1.start + 1, s1.current))),
              err |-> NoError, panic |-> FALSE])

RECURSIVE digits(_)
\* the loops of parse_number and parse_identifier
digits(sc) == IF is_digit(peek(sc)) THEN digits([sc EXCEPT !.current = @ + 1]) ELSE sc

RECURSIVE alpha_numerics(_)
alpha_numerics(sc) ==
    IF is_alpha_numeric(peek(sc)) THEN alpha_numerics([sc EXCEPT !.current = @ + 1]) ELSE sc

digit_value(ch) == (CHOOSE i \in 1..Len(Digits) : Digits[i] = ch) - 1

RECURSIVE decimal(_)
decimal(text) ==
    IF text = <<>> THEN 0
    ELSE 10 * decimal(SubSeq(text, 1, Len(text) - 1)) + digit_value(text[Len(text)])

RECURSIVE significant(_)
significant(text) ==
    IF text # <<>> /\ text[Len(text)] = "0" THEN significant(SubSeq(text, 1, Len(text) - 1)) ELSE text

\* str::parse::<f64> of digits, optionally a dot and digits: the whole part
\* and the digits of the fraction that count
parse_f64(num_text) ==
    LET dots == {i \in 1..Len(num_text) : num_text[i] = "."}
    IN IF dots = {} THEN <<decimal(num_text), <<>>>>
       ELSE LET dot == CHOOSE i \in dots : TRUE
            IN <<decimal(SubSeq(num_text, 1, dot - 1)),
                 significant(SubSeq(num_text, dot + 1, Len(num_text)))>>

parse_number(sc) ==
    Let(digits(sc), LAMBDA s1 :
        Let(IF peek(s1) = "." /\ is_digit(peek_next(s1))
            THEN digits([s1 EXCEPT !.current = @ + 1]) ELSE s1, LAMBDA s2 :
            add_token(s2, TT_of("Number", parse_f64(sub_string(s2, s2.start, s2.current))))))

parse_identifier(sc) ==
    Let(alpha_numerics(sc), LAMBDA s1 :
        Let(sub_string(s1, s1.start, s1.current), LAMBDA ident :
            IF \E kw \in get_keywords : kw[1] = ident
            THEN add_token(s1, TT((CHOOSE kw \in get_keywords : kw[1] = ident)[2]))
            ELSE add_token(s1, TT_of("Identifier", ident))))

SingleCharacter ==
    { <<"(", "LeftParen">>, <<")", "RightParen">>, <<"{", "LeftBrace">>, <<"}", "RightBrace">>,
      <<",", "Comma">>, <<".", "Dot">>, <<"-", "Minus">>, <<"+", "Plus">>, <<";", "SemiColon">>,
      <<"*", "Star">> }

Scanned(sc) == [sc |-> sc, err |-> NoError, panic |-> FALSE]

\* scan_intern; advance panics (unwrap of None) when the source has no char
\* at index current
scan_intern(sc) ==
    IF ~has_nth(sc.source, sc.current)
    THEN [sc |-> sc, err |-> NoError, panic |-> TRUE]
    ELSE Let(sc.source[sc.current + 1], LAMBDA c :
         Let([sc EXCEPT !.current = @ + 1], LAMBDA s1 :
            CASE \E t \in SingleCharacter : t[1] = c ->
                    Scanned(add_token(s1, TT((CHOOSE t \in SingleCharacter : t[1] = c)[2])))
              [] c = "!" -> Scanned(one_or_two(s1, "=", "BangEqual", "Bang"))
              [] c = "=" -> Scanned(one_or_two(s1, "=", "EqualEqual", "Equal"))
              [] c = "<" -> Scanned(one_or_two(s1, "=", "LessEqual", "Less"))
              [] c = ">" -> Scanned(one_or_two(s1, "=", "GreaterEqual", "Greater"))
              [] c = "/" -> IF matches(s1, "/")
                            THEN Scanned(comment([s1 EXCEPT !.current = @ + 1]))
                            ELSE Scanned(add_token(s1, TT("Slash")))
              [] c = "\"" -> parse_string(s1)
              [] c = "\n" -> Scanned([s1 EXCEPT !.line = @ + 1])
              [] c \in {" ", "\r", "\t"} -> Scanned(s1)
              [] is_digit(c) -> Scanned(parse_number(s1))
              [] is_alpha(c) -> Scanned(parse_identifier(s1))
              [] OTHER -> [sc |-> s1, err |-> ScanError_new(s1.line, "Unexpected Character"),
                           panic |-> FALSE]))

\* F of the value of v, computed before F is
Now(v, F(_)) == CHOOSE r \in {F(x) : x \in {v}} : TRUE

\* the whole of scan_tokens
scan_step(sc) ==
    Let(scan_intern([sc EXCEPT !.start = sc.current]), LAMBDA r :
        IF r.panic THEN [r.sc EXCEPT !.state = "panicked"]
        ELSE IF r.err # NoError THEN [r.sc EXCEPT !.errors = Append(@, r.err)]
        ELSE r.sc)

scan_end(sc) ==
    [add_token([sc EXCEPT !.start = sc.current], TT("Eof")) EXCEPT !.state = "returned"]

\* one turn of the loop of scan_tokens, or its end
scan_turn(sc) ==
    IF sc.state # "scanning" THEN sc
    ELSE IF is_at_end(sc) THEN scan_end(sc)
    ELSE scan_step(sc)

RECURSIVE scan_turns(_, _)
\* n turns, taken by halves: a turn after the end changes nothing
scan_turns(sc, n) ==
    IF n = 0 THEN sc
    ELSE IF n = 1 THEN scan_turn(sc)
    ELSE Now(scan_turns(sc, n \div 2), LAMBDA half : scan_turns(half, n - n \div 2))

\* every turn but the last takes at least one byte of the source
scan_tokens(sc) == scan_turns(sc, String_len(sc.source) + 1)

\* ------------------------------------------------------------------------
\* The parser (parser/mod.rs, parser/error.rs)
\* ------------------------------------------------------------------------

MAX_ARGS_COUNT == 255

Parser_new(tokens) ==
    [ tokens |-> tokens, current |-> 0,
      stmts |-> <<>>,           \* the local stmts of parse
      reported |-> <<>>,        \* the errors declaration has written to stderr
      input |-> None,           \* the source text the tokens come from
      state |-> "parsing" ]     \* "parsing", "returned", "overflow"

ParseError_new(token, msg, found) == [token |-> token, msg |-> msg, found |-> found]

\* Result<T>, and the stack overflow of a recursion without end
POk(p, val) == [p |-> p, tag |-> "ok", val |-> val, err |-> None]
PErr(p, token, msg) == [p |-> p, tag |-> "err", val |-> None, err |-> ParseError_new(token, msg, "")]
POverflow(p) == [p |-> p, tag |-> "overflow", val |-> None, err |-> None]

\* the ? operator
PTry(r, F(_, _)) == IF r.tag # "ok" THEN r ELSE F(r.p, r.val)

Parser_peek(p) == p.tokens[p.current + 1]

previous(p) == p.tokens[p.current]

at_end(p) == Parser_peek(p).typ.kind = "Eof"

check(p, tt) == Parser_peek(p).typ.kind = tt

check_any(p, tts) == \E tt \in tts : check(p, tt)

Parser_advance(p) == IF ~at_end(p) THEN [p EXCEPT !.current = @ + 1] ELSE p

consume(p, tt, error_msg) ==
    IF check(p, tt)
    THEN POk(Parser_advance(p), previous(Parser_advance(p)))
    ELSE PErr(p, Parser_peek(p), error_msg)

consume_identifier(p, error_msg) ==
    IF check(p, "Identifier")
    THEN POk(Parser_advance(p), previous(Parser_advance(p)))
    ELSE PErr(p, Parser_peek(p), error_msg)

Boundaries == {"Class", "Fun", "Var", "For", "If", "While", "Print", "Return"}

RECURSIVE synchronize_loop(_)
synchronize_loop(p) ==
    IF at_end(p) THEN p
    ELSE IF previous(p).typ.kind = "SemiColon" THEN p
    ELSE IF Parser_peek(p).typ.kind \in Boundaries THEN p
    ELSE synchronize_loop(Parser_advance(p))

synchronize(p) == synchronize_loop(Parser_advance(p))

\* the operators of each level of binary operations, the node it builds and
\* the level of its operands
LevelOperators(level) ==
    CASE level = "or" -> {"Or"}
      [] level = "and" -> {"And"}
      [] level = "equality" -> {"BangEqual", "EqualEqual"}
      [] level = "comparison" -> {"Greater", "GreaterEqual", "Less", "LessEqual"}
      [] level = "term" -> {"Plus", "Minus"}
      [] level = "factor" -> {"Slash", "Star"}

LevelNode(level) == IF level \in {"or", "and"} THEN "Logical" ELSE "Binary"

RECURSIVE declaration(_), function_declaration(_, _), parameters_turns(_, _), var_declaration(_),
          statement(_), if_statement(_), for_statement(_), block(_), block_loop(_, _),
          print_statement(_), while_statement(_), expr_statement(_), expression(_),
          assignment(_), or(_), and(_), Parser_equality(_), comparison(_), term(_),
          factor(_), operand(_, _), binary_loop(_, _, _), unary(_), call(_), call_loop(_, _),
          finish_call(_, _), arguments(_), arguments_turn(_), arguments_turns(_, _), primary(_)

declaration(p) ==
    Let(IF check(p, "Fun") THEN function_declaration(Parser_advance(p), "function")
        ELSE IF check(p, "Var") THEN var_declaration(Parser_advance(p))
        ELSE statement(p), LAMBDA res :
        IF res.tag = "err"
        THEN POk(synchronize([res.p EXCEPT !.reported = Append(@, res.err)]), None)
        ELSE res)

\* the state of a loop over a list between parentheses: the parser, the
\* items so far, and "more" while the loop goes on
Arguments(p, args, tag, err) == [p |-> p, args |-> args, tag |-> tag, err |-> err]

\* one turn of the loop over the parameters in function_declaration
parameters_turn(a) ==
    IF a.tag # "more" THEN a
    ELSE IF Len(a.args) > MAX_ARGS_COUNT
    THEN Arguments(a.p, a.args, "err",
                   ParseError_new(Parser_peek(a.p), "Can't have more than 255 arguments.", ""))
    ELSE Let(consume_identifier(a.p, "Expect parameter name."), LAMBDA r :
            IF r.tag # "ok" THEN Arguments(r.p, a.args, r.tag, r.err)
            ELSE IF check(r.p, "Comma")
            THEN Arguments(Parser_advance(r.p), Append(a.args, r.val), "more", None)
            ELSE Arguments(r.p, Append(a.args, r.val), "ok", None))

\* n turns, taken by halves: a turn after the end changes nothing
parameters_turns(a, n) ==
    IF n = 0 THEN a
    ELSE IF n = 1 THEN parameters_turn(a)
    ELSE Now(parameters_turns(a, n \div 2), LAMBDA half : parameters_turns(half, n - n \div 2))

\* the loop over the parameters: every turn takes at least one token
parameters(p, params) ==
    Let(parameters_turns(Arguments(p, params, "more", None), Len(p.tokens) - p.current), LAMBDA a :
        [p |-> a.p, tag |-> a.tag, val |-> a.args, err |-> a.err])

function_declaration(p, kind) ==
    PTry(consume_identifier(p, "Expect function name."), LAMBDA p1, name :
    PTry(consume(p1, "LeftParen", "Expect '(' after function name."), LAMBDA p2, paren :
    PTry(IF ~check(p2, "RightParen") THEN parameters(p2, <<>>) ELSE POk(p2, <<>>), LAMBDA p3, params :
    PTry(consume(p3, "RightParen", "Expect ')' after parameters"), LAMBDA p4, close :
    PTry(consume(p4, "LeftBrace", "Expect '{' before function body."), LAMBDA p5, brace :
    PTry(block(p5), LAMBDA p6, body :
        POk(p6, [k |-> "Function", name |-> name, params |-> params, body |-> body])))))))

var_declaration(p) ==
    PTry(consume_identifier(p, "Expect variable name"), LAMBDA p1, name :
    PTry(IF check(p1, "Equal") THEN expression(Parser_advance(p1)) ELSE POk(p1, None),
         LAMBDA p2, initializer :
    PTry(consume(p2, "SemiColon", "Expect ';' after variable declaration."), LAMBDA p3, semi :
        POk(p3, [k |-> "Var", name |-> name, initializer |-> initializer]))))

statement(p) ==
    CASE check(p, "For") -> for_statement(Parser_advance(p))
      [] check(p, "If") -> if_statement(Parser_advance(p))
      [] check(p, "Print") -> print_statement(Parser_advance(p))
      [] check(p, "While") -> while_statement(Parser_advance(p))
      [] check(p, "LeftBrace") ->
            PTry(block(Parser_advance(p)), LAMBDA p1, statements : POk(p1, SBlock(statements)))
      [] OTHER -> expr_statement(p)

if_statement(p) ==
    PTry(consume(p, "LeftParen", "Expect '(' after 'if'"), LAMBDA p1, paren :
    PTry(expression(p1), LAMBDA p2, condition :
    PTry(consume(p2, "RightParen", "Expect ')' after condition"), LAMBDA p3, close :
    PTry(statement(p3), LAMBDA p4, then_stmt :
    PTry(IF check(p4, "Else") THEN statement(Parser_advance(p4)) ELSE POk(p4, None),
         LAMBDA p5, else_branch :
        POk(p5, SIf(condition, then_stmt, else_branch)))))))

for_statement(p) ==
    PTry(consume(p, "LeftParen", "Expect '(' after for."), LAMBDA p1, paren :
    PTry(IF check(p1, "SemiColon") THEN POk(Parser_advance(p1), None)
         ELSE IF check(p1, "Var") THEN var_declaration(Parser_advance(p1))
         ELSE expr_statement(p1), LAMBDA p2, initializer :
    PTry(IF ~check(p2, "SemiColon") THEN expression(p2) ELSE POk(p2, None), LAMBDA p3, condition :
    PTry(consume(p3, "SemiColon", "Expect ';' after loop condition"), LAMBDA p4, semi :
    PTry(IF ~check(p4, "RightParen") THEN expression(p4) ELSE POk(p4, None), LAMBDA p5, increment :
    PTry(consume(p5, "RightParen", "Expect ')' after for cluase."), LAMBDA p6, close :
    PTry(statement(p6), LAMBDA p7, body :
        Let(IF increment # None THEN SBlock(<<body, SExpression(increment)>>) ELSE body, LAMBDA b1 :
        Let(SWhile(IF condition # None THEN condition ELSE Literal(LBool(TRUE)), b1), LAMBDA b2 :
            POk(p7, IF initializer # None THEN SBlock(<<initializer, b2>>) ELSE b2))))))))))

block_loop(p, statements) ==
    IF ~check(p, "RightBrace") /\ ~at_end(p)
    THEN Let(declaration(p), LAMBDA r :
            IF r.tag # "ok" THEN r
            ELSE block_loop(r.p, IF r.val # None THEN Append(statements, r.val) ELSE statements))
    ELSE POk(p, statements)

block(p) ==
    PTry(block_loop(p, <<>>), LAMBDA p1, statements :
    PTry(consume(p1, "RightBrace", "Expect '}' after block."), LAMBDA p2, brace : POk(p2, statements)))

print_statement(p) ==
    PTry(expression(p), LAMBDA p1, expr :
    PTry(consume(p1, "SemiColon", "Expect ';' after value."), LAMBDA p2, semi : POk(p2, SPrint(expr))))

while_statement(p) ==
    PTry(consume(p, "LeftParen", "Expect '(' after while."), LAMBDA p1, paren :
    PTry(expression(p1), LAMBDA p2, condition :
    PTry(consume(p2, "RightParen", "Expect ')' after condition."), LAMBDA p3, close :
    PTry(statement(p3), LAMBDA p4, body : POk(p4, SWhile(condition, body))))))

expr_statement(p) ==
    PTry(expression(p), LAMBDA p1, expr :
    PTry(consume(p1, "SemiColon", "Expect ';' after expression."), LAMBDA p2, semi :
        POk(p2, SExpression(expr))))

expression(p) == assignment(p)

assignment(p) ==
    PTry(or(p), LAMBDA p1, expr :
        IF check(p1, "Equal")
        THEN PTry(assignment(Parser_advance(p1)), LAMBDA p2, value :
                IF expr.k = "Variable"
                THEN POk(p2, [k |-> "Assign", name |-> expr.name, expression |-> value])
                ELSE PErr(p2, previous(p2), "Invalid assignment target."))
        ELSE POk(p1, expr))

operand(p, level) ==
    CASE level = "or" -> and(p)
      [] level = "and" -> Parser_equality(p)
      [] level = "equality" -> comparison(p)
      [] level = "comparison" -> term(p)
      [] level = "term" -> factor(p)
      [] level = "factor" -> unary(p)

\* the while loop of or, and, equality, comparison, term and factor
binary_loop(p, expr, level) ==
    IF check_any(p, LevelOperators(level))
    THEN Let(Parser_advance(p), LAMBDA p1 :
            PTry(operand(p1, level), LAMBDA p2, right :
                binary_loop(p2, [k |-> LevelNode(level), left |-> expr,
                                 operator |-> previous(p1), right |-> right], level)))
    ELSE POk(p, expr)

or(p) == PTry(and(p), LAMBDA p1, expr : binary_loop(p1, expr, "or"))

and(p) == PTry(Parser_equality(p), LAMBDA p1, expr : binary_loop(p1, expr, "and"))

Parser_equality(p) == PTry(comparison(p), LAMBDA p1, expr : binary_loop(p1, expr, "equality"))

comparison(p) == PTry(term(p), LAMBDA p1, expr : binary_loop(p1, expr, "comparison"))

term(p) == PTry(factor(p), LAMBDA p1, expr : binary_loop(p1, expr, "term"))

factor(p) == PTry(unary(p), LAMBDA p1, expr : binary_loop(p1, expr, "factor"))

unary(p) ==
    IF check_any(p, {"Bang", "Minus"})
    THEN Let(Parser_advance(p), LAMBDA p1 :
            PTry(unary(p1), LAMBDA p2, right :
                POk(p2, [k |-> "Unary", operator |-> previous(p1), right |-> right])))
    ELSE call(p)

call_loop(p, expr) ==
    IF check(p, "LeftParen")
    THEN PTry(finish_call(Parser_advance(p), expr), LAMBDA p1, e : call_loop(p1, e))
    ELSE POk(p, expr)

call(p) == PTry(primary(p), LAMBDA p1, expr : call_loop(p1, expr))

\* one turn of the loop of finish_call without the limit
arguments_turn_unlimited(a) ==
    IF a.tag # "more" THEN a
    ELSE Let(expression(a.p), LAMBDA r :
            IF r.tag # "ok" THEN Arguments(r.p, a.args, r.tag, r.err)
            ELSE IF check(r.p, "Comma")
            THEN Arguments(Parser_advance(r.p), Append(a.args, r.val), "more", None)
            ELSE Arguments(r.p, Append(a.args, r.val), "ok", None))

\* one turn of the loop of finish_call; tag "more" while the loop goes on
arguments_turn(a) ==
    IF a.tag # "more" THEN a
    ELSE IF Len(a.args) >= MAX_ARGS_COUNT
    THEN Arguments(a.p, a.args, "err",
                   ParseError_new(Parser_peek(a.p), "Can't have more than 255 arguments.", ""))
    ELSE Let(expression(a.p), LAMBDA r :
            IF r.tag # "ok" THEN Arguments(r.p, a.args, r.tag, r.err)
            ELSE IF check(r.p, "Comma")
            THEN Arguments(Parser_advance(r.p), Append(a.args, r.val), "more", None)
            ELSE Arguments(r.p, Append(a.args, r.val), "ok", None))

\* n turns, taken by halves: a turn after the end changes nothing
arguments_turns(a, n) ==
    IF n = 0 THEN a
    ELSE IF n = 1 THEN arguments_turn(a)
    ELSE Now(arguments_turns(a, n \div 2), LAMBDA half : arguments_turns(half, n - n \div 2))

\* the loop of finish_call: every turn takes at least one token
arguments(p) ==
    Let(arguments_turns(Arguments(p, <<>>, "more", None), Len(p.tokens) - p.current), LAMBDA a :
        [p |-> a.p, tag |-> a.tag, val |-> a.args, err |-> a.err])

finish_call(p, callee) ==
    PTry(IF ~check(p, "RightParen") THEN arguments(p) ELSE POk(p, <<>>), LAMBDA p1, args :
    PTry(consume(p1, "RightParen", "Expect ')' after arguments."), LAMBDA p2, paren :
        POk(p2, [k |-> "Call", callee |-> callee, paren |-> paren, arguments |-> args])))

\* primary advances before it looks at the token; at the end of the tokens
\* advance stays, and the token is the one before Eof once more: after a (
\* the recursion through expression never ends
primary(p) ==
    Let(Parser_advance(p), LAMBDA p1 :
    Let(previous(p1), LAMBDA token :
        CASE token.typ.kind = "False" -> POk(p1, Literal(LBool(FALSE)))
          [] token.typ.kind = "True" -> POk(p1, Literal(LBool(TRUE)))
          [] token.typ.kind = "Nil" -> POk(p1, Literal(LNil))
          [] token.typ.kind = "String" -> POk(p1, Literal(LText(token.typ.val)))
          [] token.typ.kind = "Number" -> POk(p1, Literal(LNum(token.typ.val)))
          [] token.typ.kind = "LeftParen" ->
                IF p1 = p THEN POverflow(p1)
                ELSE PTry(expression(p1), LAMBDA p2, expr :
                     PTry(consume(p2, "RightParen", "Expect ')' after expression."), LAMBDA p3, close :
                        POk(p3, Grouping(expr))))
          [] token.typ.kind = "Identifier" -> POk(p1, [k |-> "Variable", name |-> token])
          [] OTHER -> [p |-> p1, tag |-> "err", val |-> None,
                       err |-> ParseError_new(Parser_peek(p1), "Expect expression, found",
                                              token.typ.kind)]))

\* the longest source text
MaxSource == 3

\* the chars of the source texts: one of each kind scan_intern tells apart
Alphabet == {"(", "!", "=", "/", "\"", "\n", " ", "1", ".", "o", "r", "@", E_ACUTE, EURO}

Sources == UNION {[1..n -> Alphabet] : n \in 0..MaxSource}

\* ------------------------------------------------------------------------
\* One run: the resolver pass over the statements, then Interpreter::interpret
\* ------------------------------------------------------------------------

Init ==
    /\ prog \in Inputs
    /\ stmts = Tokens(Program(prog))
    /\ pc = "resolve"
    /\ ip = 1
    /\ resolver = Resolver_new(<<>>)
    /\ resolveErr = ""
    /\ resolveToken = None
    /\ \E now \in ClockReadings, hasher \in HashOrders : st = Interpreter_new(now, hasher)
    /\ last = [stmt |-> 0, from |-> 0, tag |-> "ok", msg |-> ""]
    /\ scanner = Scanner_new(<<>>)
    /\ parser = Parser_new(<<>>)

\* Resolver::new(&mut interpreter).resolve_stmts(&stmts)
Resolve ==
    /\ pc = "resolve"
    /\ \E r \in {resolve_stmts(resolver, stmts)} :
          /\ resolver' = r.rs
          /\ resolveErr' = r.err
          /\ resolveToken' = r.token
          /\ pc' = IF r.err = "" THEN (IF stmts = <<>> THEN "done" ELSE "interpret") ELSE "rejected"
    /\ UNCHANGED <<prog, stmts, ip, st, last, scanner, parser>>

\* interpret that returns at the first error
Interpret_stop ==
    /\ pc = "interpret"
    /\ \E r \in {execute(resolver.locals, st, stmts[ip])} :
          /\ st' = r.st
          /\ last' = [stmt |-> ip, from |-> Len(st.log), tag |-> r.tag, msg |-> r.msg]
          /\ pc' = IF r.tag = "panic" THEN "panicked"
                   ELSE IF ip = Len(stmts) \/ r.tag # "ok" THEN "done" ELSE "interpret"
    /\ ip' = ip + 1
    /\ UNCHANGED <<prog, stmts, resolver, resolveErr, resolveToken, scanner, parser>>

\* one turn of the loop of Interpreter::interpret
Interpret ==
    /\ pc = "interpret"
    /\ \E r \in {execute(resolver.locals, st, stmts[ip])} :
          /\ st' = r.st
          /\ last' = [stmt |-> ip, from |-> Len(st.log), tag |-> r.tag, msg |-> r.msg]
          /\ pc' = IF r.tag = "panic" THEN "panicked"
                   ELSE IF ip = Len(stmts) THEN "done" ELSE "interpret"
    /\ ip' = ip + 1
    /\ UNCHANGED <<prog, stmts, resolver, resolveErr, resolveToken, scanner, parser>>

Next == Resolve \/ Interpret

Spec == Init /\ [][Next]_vars

\* ------------------------------------------------------------------------
\* One scan: Scanner::new(source).scan_tokens()
\* ------------------------------------------------------------------------

\* the variables of a run that a scan leaves alone
run == <<prog, stmts, pc, ip, resolver, resolveErr, resolveToken, st, last>>

NoRun ==
    /\ prog = <<"none", 0, 0>>
    /\ stmts = <<>>
    /\ pc = "idle"
    /\ ip = 1
    /\ resolver = Resolver_new(<<>>)
    /\ resolveErr = ""
    /\ resolveToken = None
    /\ st = Interpreter_new(0, "ne")
    /\ last = [stmt |-> 0, from |-> 0, tag |-> "ok", msg |-> ""]

ScanInit ==
    /\ \E source \in Sources : scanner = Scanner_new(source)
    /\ parser = Parser_new(<<>>)
    /\ NoRun

\* one turn of the loop of scan_tokens
ScanToken ==
    /\ scanner.state = "scanning"
    /\ ~is_at_end(scanner)
    /\ scanner' = scan_step(scanner)
    /\ UNCHANGED <<run, parser>>

\* scan_tokens that ends the tokens with Eof only when it found no error
ScanEof_unless_errors ==
    /\ scanner.state = "scanning"
    /\ is_at_end(scanner)
    /\ scanner' = IF scanner.errors = <<>>
                  THEN [add_token([scanner EXCEPT !.start = scanner.current], TT("Eof"))
                            EXCEPT !.state = "returned"]
                  ELSE [scanner EXCEPT !.state = "returned"]
    /\ UNCHANGED <<run, parser>>

\* the end of scan_tokens: Token::new(Eof, "", line) and the results
ScanEof ==
    /\ scanner.state = "scanning"
    /\ is_at_end(scanner)
    /\ scanner' = scan_end(scanner)
    /\ UNCHANGED <<run, parser>>

ScanNext == ScanToken \/ ScanEof

ScanSpec == ScanInit /\ [][ScanNext]_vars

\* ------------------------------------------------------------------------
\* One parse: Parser::new(scan_res.tokens).parse(), as run calls it on the
\* tokens of a source text without lexical errors
\* ------------------------------------------------------------------------

\* a source text is written as its words: a keyword by the name of its
\* token type, any other word by its single char
Spell(word) ==
    IF \E kw \in get_keywords : kw[2] = word
    THEN (CHOOSE kw \in get_keywords : kw[2] = word)[1]
    ELSE <<word>>

RECURSIVE Text(_)
Text(words) ==
    IF words = <<>> THEN <<>>
    ELSE IF Len(words) = 1 THEN Spell(words[1])
    ELSE Spell(words[1]) \o <<" ">> \o Text(Tail(words))

\* the longest text of the family of all short texts
MaxWords == 3

WordAlphabet == {"Print", "Var", "a", "1", "=", ";", "(", ","}

\* a declaration with an error, between  var a;  and a declaration after it
SyncBefore == <<"Var", "a", ";">>
SyncBads ==
    << <<"Var", "=", "1", ";">>,
       <<"Print", "1", "=", "2", ";">>,
       <<"Print", "(", "1", ";">>,
       <<"Print", ";">>,
       <<"Print", "1", "+", ";">> >>
SyncAfters == << <<"Print", "2", ";">>, <<"Var", "b", ";">>, <<"b", "=", "2", ";">> >>

\* f(a,a,...,a);  with n arguments: each word is one char
CallText(n) ==
    <<"f", "(">> \o [i \in 1..(IF n = 0 THEN 0 ELSE 2 * n - 1) |-> IF i % 2 = 1 THEN "a" ELSE ","]
                 \o <<")", ";">>

\* fun f(a,a,...,a){}  with n parameters
FunText(n) ==
    <<"f", "u", "n", " ", "f", "(">>
    \o [i \in 1..(IF n = 0 THEN 0 ELSE 2 * n - 1) |-> IF i % 2 = 1 THEN "a" ELSE ","]
    \o <<")", "{", "}">>

ArgCounts ==
    {0, 1, 2, MAX_ARGS_COUNT - 1, MAX_ARGS_COUNT, MAX_ARGS_COUNT + 1, MAX_ARGS_COUNT + 2}

\* <target> = b = c;
AssignTargets ==
    << <<"a">>, <<"a", ".", "b">>, <<"(", "a", ")">>, <<"1">>, <<"a", "(", ")">>,
       <<"a", "+", "b">> >>

ParseInput(family, index, other, text) ==
    [family |-> family, index |-> index, other |-> other, text |-> text]

ParseInputs ==
    {ParseInput("short", 0, 0, Text(ws)) : ws \in UNION {[1..n -> WordAlphabet] : n \in 0..MaxWords}}
    \cup {ParseInput("sync", i, j, Text(SyncBefore \o SyncBads[i] \o SyncAfters[j])) :
            i \in 1..Len(SyncBads), j \in 1..Len(SyncAfters)}
    \cup {ParseInput("call", n, 0, CallText(n)) : n \in ArgCounts}
    \cup {ParseInput("fun", n, 0, FunText(n)) : n \in ArgCounts}
    \cup {ParseInput("assign", i, 0, Text(AssignTargets[i] \o <<"=", "b", "=", "c", ";">>)) :
            i \in 1..Len(AssignTargets)}

ParseInit ==
    /\ \E input \in ParseInputs :
          /\ scanner = scan_tokens(Scanner_new(input.text))
          /\ parser = [Parser_new(scanner.tokens) EXCEPT !.input = input]
    /\ NoRun

\* one turn of the loop of parse
ParseDeclaration ==
    /\ parser.state = "parsing"
    /\ ~at_end(parser)
    /\ \E r \in {declaration(parser)} :
          parser' = IF r.tag = "overflow" THEN [r.p EXCEPT !.state = "overflow"]
                    ELSE IF r.val # None THEN [r.p EXCEPT !.stmts = Append(@, r.val)]
                    ELSE r.p
    /\ UNCHANGED <<run, scanner>>

\* the end of parse: Ok(stmts)
ParseReturn ==
    /\ parser.state = "parsing"
    /\ at_end(parser)
    /\ parser' = [parser EXCEPT !.state = "returned"]
    /\ UNCHANGED <<run, scanner>>

ParseNext == ParseDeclaration \/ ParseReturn

ParseSpec == ParseInit /\ [][ParseNext]_vars

\* ------------------------------------------------------------------------
\* One run of a source text: run of lib.rs.  Scanner::scan_tokens, return
\* with RunError::Scan when it reports errors, Parser::parse, Interpreter::new
\* and Interpreter::interpret on the statements.  run has no other step: it
\* makes no Resolver and calls no resolve_stmts.
\* ------------------------------------------------------------------------

\* The scanner writes a String as its chars and the interpreter as a string:
\* the tokens and trees parse returns, written as interpret reads them.  A
\* name of the texts below is one char long.
AsToken(token) ==
    [id |-> token.id, typ |-> token.typ.kind, line |-> token.line,
     lexeme |-> IF Len(token.lexeme) = 1 THEN token.lexeme[1] ELSE token.typ.kind]

RECURSIVE AsExpr(_), AsStmt(_)

AsExpr(e) ==
    CASE e.k = "Literal" ->
            IF e.value.t = "Number" THEN Literal(LNum(e.value.n[1])) ELSE e
      [] e.k = "Grouping" -> Grouping(AsExpr(e.expression))
      [] e.k = "Unary" -> [e EXCEPT !.operator = AsToken(@), !.right = AsExpr(@)]
      [] e.k \in {"Binary", "Logical"} ->
            [e EXCEPT !.left = AsExpr(@), !.operator = AsToken(@), !.right = AsExpr(@)]
      [] e.k = "Variable" -> [e EXCEPT !.name = AsToken(@)]
      [] e.k = "Assign" -> [k |-> "Assign", name |-> AsToken(e.name), value |-> AsExpr(e.expression)]
      [] e.k = "Call" ->
            [e EXCEPT !.callee = AsExpr(@), !.paren = AsToken(@),
                      !.arguments = [i \in 1..Len(e.arguments) |-> AsExpr(e.arguments[i])]]

AsStmt(stmt) ==
    CASE stmt.k \in {"Expression", "Print"} -> [stmt EXCEPT !.expr = AsExpr(@)]
      [] stmt.k = "Function" ->
            [k |-> "Function",
             decl |-> [name |-> AsToken(stmt.name),
                       params |-> [i \in 1..Len(stmt.params) |-> AsToken(stmt.params[i])],
                       body |-> [i \in 1..Len(stmt.body) |-> AsStmt(stmt.body[i])]]]
      [] stmt.k = "If" ->
            [stmt EXCEPT !.condition = AsExpr(@), !.then_branch = AsStmt(@),
                         !.else_branch = IF @ = None THEN None ELSE AsStmt(@)]
      [] stmt.k = "Var" ->
            [stmt EXCEPT !.name = AsToken(@), !.initializer = IF @ = None THEN None ELSE AsExpr(@)]
      [] stmt.k = "While" -> [stmt EXCEPT !.condition = AsExpr(@), !.body = AsStmt(@)]
      [] stmt.k = "Block" ->
            [stmt EXCEPT !.statements = [i \in 1..Len(stmt.statements) |-> AsStmt(stmt.statements[i])]]

RECURSIVE parse(_)

\* Parser::parse: the loop of declarations up to the Eof token
parse(p) ==
    IF at_end(p) THEN [p EXCEPT !.state = "returned"]
    ELSE Now(declaration(p), LAMBDA r :
            IF r.tag = "overflow" THEN [r.p EXCEPT !.state = "overflow"]
            ELSE parse(IF r.val # None THEN [r.p EXCEPT !.stmts = Append(@, r.val)] ELSE r.p))

\* the source texts of a run, by their words
RunTexts ==
    << <<"Print", "1", ";", "{", "Var", "a", ";", "Var", "a", ";", "}">>,
       <<"{", "Var", "a", "=", "1", ";", "Print", "a", ";", "}">>,
       <<"Print", "2", ";", "{", "Var", "a", "=", "a", ";", "}", "Print", "3", ";">>,
       <<"Var", "a", "=", "1", ";", "Print", "a", ";">>,
       <<"Var", "a", ";", "a", "=", "1", ";", "Print", "a", "+", "a", ";">>,
       <<"Print", "1", ";", "Print", "@", ";">>,
       <<"Print", "1", ";", "Print", ";", "Print", "2", ";">>,
       <<"Fun", "f", "(", ")", "{", "Print", "1", ";", "}", "f", "(", ")", ";">> >>

RunInputs ==
    {ParseInput("run", i, 0, Text(RunTexts[i])) : i \in 1..Len(RunTexts)}
    \cup {ParseInput("short", 0, 0, Text(ws)) : ws \in UNION {[1..n -> WordAlphabet] : n \in 0..MaxWords}}

RunInit ==
    /\ \E input \in RunInputs :
          /\ scanner = Scanner_new(input.text)
          /\ parser = [Parser_new(<<>>) EXCEPT !.input = input]
    /\ prog = <<"none", 0, 0>>
    /\ stmts = <<>>
    /\ pc = "scan"
    /\ ip = 1
    /\ resolver = Resolver_new(<<>>)
    /\ resolveErr = ""
    /\ resolveToken = None
    /\ st = Interpreter_new(0, "ne")
    /\ last = [stmt |-> 0, from |-> 0, tag |-> "ok", msg |-> ""]

\* scanner.scan_tokens(), the return with RunError::Scan, Parser::new
RunScan ==
    /\ pc = "scan"
    /\ \E sc \in {scan_tokens(scanner)} :
          /\ scanner' = sc
          /\ pc' = IF sc.state = "panicked" THEN "panicked"
                   ELSE IF Len(sc.errors) > 0 THEN "scan error" ELSE "parse"
          /\ parser' = IF sc.state # "panicked" /\ Len(sc.errors) = 0
                       THEN [Parser_new(sc.tokens) EXCEPT !.input = parser.input]
                       ELSE parser
    /\ UNCHANGED <<prog, stmts, ip, resolver, resolveErr, resolveToken, st, last>>

\* parser.parse()?, Interpreter::new(): interpret is next
RunParse ==
    /\ pc = "parse"
    /\ \E p \in {parse(parser)} :
          /\ parser' = p
          /\ stmts' = [i \in 1..Len(p.stmts) |-> AsStmt(p.stmts[i])]
          /\ pc' = IF p.state = "overflow" THEN "panicked"
                   ELSE IF p.stmts = <<>> THEN "done" ELSE "interpret"
    /\ UNCHANGED <<prog, ip, resolver, resolveErr, resolveToken, st, last, scanner>>

RunNext == RunScan \/ RunParse \/ Interpret

RunSpec == RunInit /\ [][RunNext]_vars

\* ------------------------------------------------------------------------
\* Reading the history
\* ------------------------------------------------------------------------

Events(kind) == SelectSeq(st.log, LAMBDA ev : ev.e = kind)

\* the values printed so far, in order
Printed == [i \in 1..Len(Events("print")) |-> Events("print")[i].val]

\* the messages of the runtime errors raised so far, in order
Raised == [i \in 1..Len(Events("raise")) |-> Events("raise")[i].msg]

\* the part of the history written by the last executed top-level statement
LastLog == SubSeq(st.log, last.from + 1, Len(st.log))

Finished == pc \in {"done", "rejected", "panicked"}

\* ------------------------------------------------------------------------
\* The claims
\* ------------------------------------------------------------------------

ResolvedAt(k, depth) ==
    \E i \in 1..Len(st.log) :
        st.log[i].e = "resolved" /\ st.log[i].k = k /\ st.log[i].depth >= depth

\* C1: in a program the resolver accepted, a reference with a recorded
\* distance d always finds an environment d links up, and a read finds the
\* name bound there: get_at and find_ancestor never panic.
C1_RecordedDistanceIsBound ==
    pc = "panicked" => last.msg \notin {"It should contain a value", "Value must be avaible"}

\* a run that came to its end after reads, writes, `this` and `super` were
\* all looked up through recorded distances of one and more
C1_Witness ==
    /\ pc = "done"
    /\ ResolvedAt("Variable", 2) /\ ResolvedAt("Assign", 1)
    /\ ResolvedAt("This", 2) /\ ResolvedAt("Super", 2)

Calls == Events("call_function")

\* C2: every call runs in a fresh environment whose parent is the closure
\* of the called function, and the counter program prints 1, 2, 1.
C2_FreshEnvironmentPerCall ==
    /\ \A i \in 1..Len(Calls) :
          /\ st.envs[Calls[i].environment].enclosing = Calls[i].closure
          /\ \A j \in 1..(i - 1) : Calls[j].environment # Calls[i].environment
    /\ (prog[1] = "counter" /\ pc = "done") => Printed = <<VNum(1), VNum(2), VNum(1)>>

\* the counter program at its end: make was called twice, inc three times
C2_Witness ==
    /\ prog[1] = "counter" /\ pc = "done"
    /\ Len(SelectSeq(Calls, LAMBDA c : c.name = "inc")) = 3
    /\ Len(SelectSeq(Calls, LAMBDA c : c.name = "make")) = 2

Lefts == Events("left")

\* C3: a block, a function call and a class declaration leave the current
\* environment as they found it, however they end.
C3_EnvironmentRestored ==
    /\ \A i \in 1..Len(Lefts) : Lefts[i].exit # "panic" => Lefts[i].after = Lefts[i].before
    /\ pc \in {"interpret", "done"} => st.environment = Globals

LeftBy(op, exit) ==
    \E i \in 1..Len(Lefts) :
        Lefts[i].op = op /\ Lefts[i].exit = exit /\ Lefts[i].before # Globals

\* nested blocks were left normally, by an error and by a return, a call
\* by an error, and a class with a superclass was declared in a block
C3_Witness ==
    /\ LeftBy("execute_block", "ok") /\ LeftBy("execute_block", "err")
    /\ LeftBy("execute_block", "ret") /\ LeftBy("call_function", "err")
    /\ LeftBy("evaluate_class", "ok")
    /\ \E c \in 1..Len(st.classes) : st.classes[c].super_class # 0

\* the entries of the last statement's history after its first error
AfterRaise ==
    LET raises == {i \in 1..Len(LastLog) : LastLog[i].e = "raise"}
    IN IF raises = {} THEN <<>>
       ELSE SubSeq(LastLog, 1 + (CHOOSE i \in raises : \A j \in raises : i <= j), Len(LastLog))

\* C4: a runtime error ends its top-level statement on the spot (after the
\* error nothing of it is entered any more, only environments are left),
\* and the loop of interpret goes on with the next statement.
C4_ErrorEndsOnlyItsStatement ==
    /\ \A i \in 1..Len(AfterRaise) : AfterRaise[i].e = "left"
    /\ pc \in {"interpret", "done"} => last.stmt = ip - 1
    /\ (pc # "panicked" /\ last.stmt > 0 /\ last.stmt < Len(stmts)) => pc = "interpret"
    /\ pc = "done" => ip = Len(stmts) + 1

\* a statement runs to its end after an earlier statement was cut short by
\* an error raised inside a nested block
C4_Witness ==
    /\ last.tag = "ok" /\ \E i \in 1..Len(LastLog) : LastLog[i].e = "print"
    /\ \E i \in 1..last.from : st.log[i].e = "raise"
    /\ \E i \in 1..last.from : st.log[i].e = "left" /\ st.log[i].exit = "err"

\* C5: super.m() in a method of B < A runs A's m, also when `this` is an
\* instance of C < B that overrides m, and `this` stays the same instance.
C5_SuperStartsAtSuperclass ==
    prog[1] = "super" =>
        /\ Len(st.insts) <= 1
        /\ Len(Printed) >= 1 => Printed[1] = VStr("A")
        /\ Len(Printed) >= 2 => Printed[2] = VInstance(1)
        /\ Len(Printed) >= 3 => Printed[3] = VStr(IF prog[2] = 1 THEN "C" ELSE "B")

\* the instance of C has called test, me and m
C5_Witness ==
    prog[1] = "super" /\ prog[2] = 1 /\ pc = "done" /\ Len(Printed) >= 3 /\ ResolvedAt("Super", 2)

\* the class call families: the parameters of init, the arguments of the
\* call, and the place of the statement `var k = K(..);`
IsClassCall == prog[1] \in {"none", "own", "inherited"}
InitParams == IF prog[1] = "none" THEN 0 ELSE prog[2]
CallArgs == prog[3]
CallStmt == IF prog[1] = "inherited" THEN 3 ELSE 2

\* C6: a class called with M arguments while init has N parameters, N # M,
\* raises "Expected N arguments but got M." and neither allocates an
\* instance nor runs init.
C6_ClassArityIsInitArity ==
    (IsClassCall /\ last.stmt = CallStmt /\ InitParams # CallArgs) =>
        /\ last.tag = "err"
        /\ last.msg = "Expected " \o ToString(InitParams) \o " arguments but got "
                      \o ToString(CallArgs) \o "."
        /\ st.insts = <<>>
        /\ Calls = <<>>

\* C7: calling a class allocates an instance without fields, runs the init
\* found by method lookup on it with the arguments of the call, and yields
\* that instance, so the field init sets is there on the result.
C7_ClassCallRunsInit ==
    (IsClassCall /\ last.stmt = CallStmt /\ InitParams = CallArgs) =>
        /\ last.tag = "ok"
        /\ Len(st.insts) = 1
        /\ st.envs[Globals].values["k"] = VInstance(1)
        /\ IF prog[1] = "none"
           THEN Calls = <<>> /\ st.insts[1].fields = EmptyMap
           ELSE /\ Len(Calls) = 1 /\ Calls[1].name = "init"
                /\ st.envs[st.envs[Calls[1].environment].enclosing].values["this"] = VInstance(1)
                /\ contains_key(st.insts[1].fields, "x") /\ st.insts[1].fields["x"] = VNum(1)

\* C8: a call of init, also on an instance that exists, yields the instance
\* bound as `this`, with or without a bare return in the body.
C8_InitYieldsThis ==
    (prog[1] = "init" /\ Len(Printed) >= 1) => Printed[1] = VInstance(1)

SelfInitMessage == "Can't read local variable in its own initializer."

\* C9: a local `var a = a;` is rejected by the resolver, with no distance
\* recorded for the read, also when an outer a exists; at global scope the
\* same declaration is accepted.
C9_OwnInitializerRejected ==
    (prog[1] = "selfinit" /\ pc # "resolve") =>
        IF prog[2] = 1
        THEN pc = "rejected" /\ resolveErr = SelfInitMessage /\ resolver.locals = <<>>
        ELSE pc # "rejected" /\ resolveErr = ""

\* the resolver has rejected { var a = "outer"; { var a = a; .. } }
C9_Witness ==
    prog = <<"selfinit", 1, 1>> /\ pc = "rejected" /\ resolveErr = SelfInitMessage

TwinNear == stmts[1].statements[2].statements[1].expr
TwinFar == stmts[1].statements[2].statements[2].statements[1].expr
TwinHere == stmts[1].statements[3].expr

\* C11: the binding table holds at most one entry per node, and two reads of
\* the same name at different places of one line have each their own
\* distance: get_distance answers 1, 2 and 0 for the three reads of a.
C11_OneEntryPerNode ==
    /\ \A i, j \in 1..Len(resolver.locals) :
          i # j => resolver.locals[i].expr # resolver.locals[j].expr
    /\ (prog[1] = "twins" /\ pc # "resolve") =>
          /\ TwinNear.name.lexeme = TwinFar.name.lexeme /\ TwinNear.name.line = TwinFar.name.line
          /\ Len(resolver.locals) = 3
          /\ get_distance(resolver.locals, TwinNear) = [depth |-> 1]
          /\ get_distance(resolver.locals, TwinFar) = [depth |-> 2]
          /\ get_distance(resolver.locals, TwinHere) = [depth |-> 0]
    /\ (prog[1] = "twins" /\ pc = "done") => Printed = <<VNum(1), VNum(1), VNum(1)>>

\* the twins program was resolved and has run to its end
C11_Witness ==
    prog[1] = "twins" /\ pc = "done" /\ Len(resolver.locals) = 3 /\ Len(Printed) = 3

\* the binary family: the statement that prints the operation, the operator
\* and the kinds of the values of its operands
BinaryStmt == 9
OperandKinds ==
    <<"Nil", "Boolean", "Number", "Number", "String", "Callable", "Callable", "Instance", "Instance">>
BinaryOperator == Operators[prog[2]]
LeftKind == OperandKinds[(prog[3] \div Len(Operands)) + 1]
RightKind == OperandKinds[(prog[3] % Len(Operands)) + 1]
BinaryDone == prog[1] = "binary" /\ last.stmt = BinaryStmt

\* C12: + on operands that are not two Numbers or two Strings raises the
\* error that names numbers and strings; - * / < <= > >= on an operand that
\* is no Number raise the error that names numbers only; == and != yield a
\* Boolean for every pair of values.
C12_OperandErrors ==
    BinaryDone =>
        CASE BinaryOperator = "Plus" ->
                IF LeftKind = RightKind /\ LeftKind \in {"Number", "String"}
                THEN last.tag = "ok"
                ELSE last.tag = "err" /\ last.msg = "Operands must be two numbers or two Strings"
          [] BinaryOperator \in {"EqualEqual", "BangEqual"} ->
                /\ last.tag = "ok"
                /\ Len(Printed) = 1 /\ Printed[1].t = "Boolean"
          [] OTHER ->
                IF LeftKind = "Number" /\ RightKind = "Number"
                THEN last.tag = "ok"
                ELSE last.tag = "err" /\ last.msg = "Operands must be numbers"

\* the logical family: the left operand is nil or false
LeftIsFalsy == LogicalLefts[prog[3]] \in {LNil, LBool(FALSE)}
\* the right operand has to be evaluated: or with a falsy left operand, and
\* with any other
RightIsDue == IF prog[2] = 0 THEN LeftIsFalsy ELSE ~LeftIsFalsy

\* C13: the right operand of or is evaluated exactly when the left is nil or
\* false, that of and exactly when the left is anything else (0 and "" are
\* true); a right operand that is not evaluated has no effect at all.
C13_ShortCircuit ==
    (prog[1] = "logical" /\ pc = "done") =>
        /\ Len(Printed) = 2
        /\ IF RightIsDue
           THEN Len(Calls) = 1 /\ Printed = <<VStr("side"), VNum(1)>>
           ELSE Calls = <<>> /\ Printed = <<FromLiteral(LogicalLefts[prog[3]]), VNum(0)>>

\* 0 or side() has run without a call of side
C13_Witness ==
    prog = <<"logical", 0, 4>> /\ pc = "done" /\ Calls = <<>> /\ Printed = <<VNum(0), VNum(0)>>

\* ------------------------------------------------------------------------
\* The scanner's results
\* ------------------------------------------------------------------------

Kinds(tokens) == [i \in 1..Len(tokens) |-> tokens[i].typ.kind]

\* the line of the char at index i: one more than the newlines before it
LineOf(source, i) == 1 + Cardinality({j \in 1..i : source[j] = "\n"})

\* C14: scan_tokens returns for every source text (and reports each
\* unrecognized character once, with its line, and goes on): here the part
\* that fails, the scan never panics.
C14_ScanReturns == scanner.state # "panicked"

\* C15: the tokens scan_tokens returns end with an Eof token and hold no Eof
\* token before it, with or without errors.
C15_EndsWithOneEof ==
    scanner.state = "returned" =>
        /\ scanner.tokens # <<>>
        /\ \A i \in 1..Len(scanner.tokens) :
              (scanner.tokens[i].typ.kind = "Eof") <=> (i = Len(scanner.tokens))

\* the scan of "o and an unterminated string has returned
C15_Witness ==
    /\ scanner.source = <<"o", "\"", "\n">>
    /\ scanner.state = "returned"
    /\ scanner.errors = <<ScanError_new(2, "Unterminated String")>>
    /\ Kinds(scanner.tokens) = <<"Identifier", "Eof">>

\* ------------------------------------------------------------------------
\* The parser's results
\* ------------------------------------------------------------------------

Parsed == parser.state = "returned"

Messages == [i \in 1..Len(parser.reported) |-> parser.reported[i].msg]

\* the statement of each declaration put after the one with the error
SyncAfterKinds == <<"Print", "Var", "Expression">>

\* C16: after a parse error in a declaration the parser goes on at the next
\* statement boundary: the well-formed declaration that follows the one with
\* the error is parsed and returned after the declaration before the error.
C16_LaterDeclarationsParsed ==
    (Parsed /\ parser.input.family = "sync") =>
        /\ Len(parser.reported) = 1
        /\ Len(parser.stmts) = 2
        /\ parser.stmts[1].k = "Var"
        /\ parser.stmts[2].k = SyncAfterKinds[parser.input.other]

\* the token of the i-th argument of f(a,a,...,a);
ArgumentToken(i) == parser.tokens[2 * i + 1]

\* C17: a call with at most 255 arguments is parsed with all its arguments in
\* order; a call with more is the parse error "Can't have more than 255
\* arguments." and yields no Call node at all.
C17_ArgumentLimit ==
    (Parsed /\ parser.input.family = "call") =>
        IF parser.input.index <= 255
        THEN /\ parser.reported = <<>>
             /\ Len(parser.stmts) = 1
             /\ parser.stmts[1].k = "Expression"
             /\ parser.stmts[1].expr.k = "Call"
             /\ Len(parser.stmts[1].expr.arguments) = parser.input.index
             /\ \A i \in 1..parser.input.index :
                   parser.stmts[1].expr.arguments[i] = [k |-> "Variable", name |-> ArgumentToken(i)]
        ELSE /\ Messages = <<"Can't have more than 255 arguments.">>
             /\ parser.stmts = <<>>

\* the call with 256 arguments has been rejected, the one with 255 parsed
C17_Witness ==
    /\ Parsed
    /\ parser.input.family = "call"
    /\ \/ parser.input.index = 256 /\ Len(parser.reported) = 1
       \/ parser.input.index = 255 /\ Len(parser.stmts) = 1

\* C18: = after a Variable yields Assign and after a Get yields Set, after
\* anything else the error "Invalid assignment target."; a = b = c is
\* a = (b = c).
C18_AssignmentTargets ==
    (Parsed /\ parser.input.family = "assign") =>
        CASE parser.input.index = 1 ->
                /\ parser.reported = <<>>
                /\ Len(parser.stmts) = 1
                /\ parser.stmts[1].expr.k = "Assign"
                /\ parser.stmts[1].expr.name.lexeme = <<"a">>
                /\ parser.stmts[1].expr.expression.k = "Assign"
                /\ parser.stmts[1].expr.expression.name.lexeme = <<"b">>
                /\ parser.stmts[1].expr.expression.expression.k = "Variable"
          [] parser.input.index = 2 ->
                /\ parser.reported = <<>>
                /\ Len(parser.stmts) = 1
                /\ parser.stmts[1].expr.k = "Set"
          [] OTHER ->
                /\ Messages = <<"Invalid assignment target.">>
                /\ parser.stmts = <<>>

\* ------------------------------------------------------------------------
\* The resolver's checks of return, this and super
\* ------------------------------------------------------------------------

Resolution == pc # "resolve"

TopLevelReturn == "Can't return from top level code"
InitializerReturn == "Can't return a value fron an initializer."

\* what resolution has to answer for each program of PReturns
ReturnErrors ==
    << TopLevelReturn, TopLevelReturn, TopLevelReturn, "", TopLevelReturn, "", InitializerReturn,
       "", "", InitializerReturn, InitializerReturn, TopLevelReturn, "", "" >>

\* C19: a return outside every function fails, return <value> directly in a
\* method init fails; return; in init and return <value> in a function inside
\* init are accepted; the function kind is back to what it was after a
\* function body, whether its resolution failed or not.
C19_ReturnContexts ==
    (prog[1] = "returns" /\ Resolution) =>
        /\ resolveErr = ReturnErrors[prog[2]]
        /\ resolver.current_function = "None"

\* fun f() { return 1; } return 2;  has been rejected at the second return
C19_Witness ==
    /\ prog = <<"returns", 5, 0>>
    /\ pc = "rejected"
    /\ resolveErr = TopLevelReturn
    /\ resolver.current_function = "None"

ThisOutside == "Can't use 'this' outside of a class."
SuperOutside == "Can't use 'super' outside of a class"
SuperNoSuperclass == "Can't use 'super' in a class with no superclass"

\* what resolution has to answer for each program of PClasses
ClassErrors ==
    << ThisOutside, ThisOutside, SuperOutside, SuperOutside, SuperNoSuperclass, SuperNoSuperclass,
       "", "", ThisOutside, "", SuperNoSuperclass, "", SuperOutside, "" >>

\* C20: this and super outside every class fail, super in a class without a
\* superclass fails, also inside a method of a subclass; the class kind is
\* back to what it was after a class declaration, whether its resolution
\* failed or not.
C20_ClassContexts ==
    (prog[1] = "classes" /\ Resolution) =>
        /\ resolveErr = ClassErrors[prog[2]]
        /\ resolver.current_class = "None"

\* class A {} class B < A { m() { class C { m() { return super.m(); } } } }
\* has been rejected
C20_Witness ==
    /\ prog = <<"classes", 6, 0>>
    /\ pc = "rejected"
    /\ resolveErr = SuperNoSuperclass
    /\ resolver.current_class = "None"

\* ------------------------------------------------------------------------
\* C21: resolution stops at its first error
\* ------------------------------------------------------------------------

RECURSIVE LastId(_), LastIds(_)

\* the greatest id among the tokens of the expressions es, -1 without a token
LastIds(es) ==
    IF es = <<>> THEN -1
    ELSE LET h == LastId(Head(es))
             t == LastIds(Tail(es))
         IN IF h > t THEN h ELSE t

\* the greatest id among the tokens of an expression: its last token in
\* source order, which is the order of the walk but for an assignment,
\* reported only after its value
LastId(e) ==
    CASE e.k = "Literal" -> -1
      [] e.k = "Grouping" -> LastId(e.expression)
      [] e.k \in {"Unary", "Binary", "Logical"} ->
            LastIds(<<[k |-> "Variable", name |-> e.operator], e.right>>)
      [] e.k = "Variable" -> e.name.id
      [] e.k = "Assign" -> LastIds(<<[k |-> "Variable", name |-> e.name], e.value>>)
      [] e.k = "Call" -> e.paren.id
      [] e.k = "Get" -> e.name.id
      [] e.k = "Set" -> LastIds(<<[k |-> "Variable", name |-> e.name], e.value>>)
      [] e.k = "This" -> e.keyword.id
      [] e.k = "Super" -> e.method.id

\* the error and the number of distances reported before it, per program
FailFastErrors ==
    << <<"Already a variable with the same name in this scope", 1>>,
       <<"Can't use 'this' outside of a class.", 0>>,
       <<"Can't return a value fron an initializer.", 1>>,
       <<"Can't read local variable in its own initializer.", 0>>,
       <<"Can't use 'super' outside of a class", 1>>,
       <<"Can't return from top level code", 2>>,
       <<"Already a variable with the same name in this scope", 2>>,
       <<"Already a variable with the same name in this scope", 1>> >>

\* C21: when resolve_stmts returns an error, the scope stack is empty again
\* as it was before the failing top-level statement, every expression with
\* a reported distance ends before the token of the error, and in the
\* programs of PFailFast the error is the first one of the walk and the
\* distances reported are those of the references before it.
C21_FailFast ==
    resolveErr # "" =>
        /\ pc = "rejected"
        /\ resolver.scopes = <<>>
        /\ \A i \in 1..Len(resolver.locals) : LastId(resolver.locals[i].expr) < resolveToken.id
        /\ prog[1] = "failfast" =>
              /\ resolveErr = FailFastErrors[prog[2]][1]
              /\ Len(resolver.locals) = FailFastErrors[prog[2]][2]

\* a rejected program with a distance reported before the error and
\* references after it
C21_Witness ==
    /\ prog = <<"failfast", 1, 0>>
    /\ pc = "rejected"
    /\ Len(resolver.locals) = 1
    /\ LastId(resolver.locals[1].expr) < resolveToken.id

\* ------------------------------------------------------------------------
\* C22: the method of the most-derived class
\* ------------------------------------------------------------------------

RECURSIVE Chain(_)

\* a class, its superclass, the superclass of that, and so on
Chain(class) ==
    IF class = 0 THEN <<>> ELSE <<class>> \o Chain(st.classes[class].super_class)

\* the places in the chain of the classes that define name
Definers(class, name) ==
    {i \in 1..Len(Chain(class)) : contains_key(st.classes[Chain(class)[i]].methods, name)}

\* the names of all methods of the heap, and one that no class defines
MethodNames ==
    UNION {DOMAIN st.classes[c].methods : c \in 1..Len(st.classes)} \cup {"absent"}

\* in PChain: the nearest class at or above class i that defines m, or 0
Definer(mask, i) ==
    LET at == {j \in 1..i : Defines(mask, j)}
    IN IF at = {} THEN 0 ELSE CHOOSE j \in at : \A k \in at : k <= j

\* C22: for every class of the heap and every name, find_method yields the
\* method of the first class of the chain that defines the name and none
\* only when no class of the chain does; the calls C().m(), B().m() and
\* A().m() of PChain each print the name of the nearest defining class or
\* raise an error when there is none.
C22_MostDerivedMethod ==
    /\ \A class \in 1..Len(st.classes) : \A name \in MethodNames :
          LET found == Definers(class, name)
          IN find_method(st, class, name) =
                IF found = {} THEN None
                ELSE st.classes[Chain(class)[CHOOSE i \in found : \A j \in found : i <= j]].methods[name]
    /\ (prog[1] = "chain" /\ pc = "done") =>
          LET called == SelectSeq(<<3, 2, 1>>, LAMBDA i : Definer(prog[2], i) # 0)
          IN /\ Printed = [k \in 1..Len(called) |-> VStr(ChainNames[Definer(prog[2], called[k])])]
             /\ Len(Raised) = 3 - Len(called)

\* B alone defines m: C inherits it, B has it, A has none
C22_Witness ==
    /\ prog = <<"chain", 2, 0>>
    /\ pc = "done"
    /\ Printed = <<VStr("B"), VStr("B")>>
    /\ Raised = <<"Undefined property 'm'.">>
    /\ find_method(st, 3, "m") = st.classes[2].methods["m"]

\* ------------------------------------------------------------------------
\* C23: fields shadow methods
\* ------------------------------------------------------------------------

NotCallable == "Can only call functions and classes."
NoProperty(name) == "Undefined property '" \o name \o "'."

\* what PFields has printed and raised at its end
FieldsPrinted(withM) ==
    IF withM THEN <<VInstance(1), VStr("field"), VInstance(2)>> ELSE <<VStr("field")>>
FieldsRaised(withM) ==
    IF withM THEN <<NoProperty("zz"), NotCallable>>
    ELSE <<NoProperty("m"), NoProperty("m"), NoProperty("zz"), NotCallable>>

\* a class of the heap is never changed
ClassesKept ==
    \A c \in 1..Len(st.classes) : c <= Len(st'.classes) /\ st'.classes[c] = st.classes[c]

\* C23: no step changes a class of the heap; and in PFields a.m() runs the
\* method bound to a (or is an undefined property without the method),
\* after a.m = "field" the read a.m yields the field and a.m() calls a
\* string, the other instance b still has the method bound to b, and a name
\* that is neither field nor method is an undefined property.
C23_FieldsShadowMethods ==
    [][/\ ClassesKept
       /\ (prog[1] = "fields" /\ pc' = "done") =>
              /\ Printed' = FieldsPrinted(prog[2] = 1)
              /\ Raised' = FieldsRaised(prog[2] = 1)
              /\ st'.insts[1].fields = ("m" :> VStr("field"))
              /\ st'.insts[2].fields = EmptyMap]_vars

\* the field m of a is read while the class of a defines the method m
C23_Witness ==
    /\ prog = <<"fields", 1, 0>>
    /\ ip = 7
    /\ last.tag = "ok"
    /\ Printed = <<VInstance(1), VStr("field")>>
    /\ contains_key(st.classes[st.insts[1].class].methods, "m")

\* ------------------------------------------------------------------------
\* C24: resolve before interpret
\* ------------------------------------------------------------------------

\* the resolve pass over the statements of the run
Resolution_of_run == resolve_stmts(Resolver_new(<<>>), stmts)

\* C24: in a run, when a statement has been interpreted the resolve pass
\* over the whole statement list has finished without an error, and the
\* interpreter holds the distances it reported.
C24_ResolveBeforeInterpret ==
    ip > 1 => /\ Resolution_of_run.err = ""
              /\ resolver.locals = Resolution_of_run.rs.locals

\* ------------------------------------------------------------------------
\* C25: return ends the nearest call
\* ------------------------------------------------------------------------

\* what PUnwind prints, statement by statement
UnwindPrinted(bare) ==
    << <<>>, <<>>, <<>>,
       <<VStr("in"), VStr("loop"), IF bare THEN VNil ELSE VNum(7), VStr("after"), VNil>>,
       <<VStr("fall"), VNil>>,
       <<VNum(5)>> >>

\* the values printed by the last executed top-level statement
LastPrinted ==
    LET prints == SelectSeq(LastLog, LAMBDA ev : ev.e = "print")
    IN [i \in 1..Len(prints) |-> prints[i].val]

\* C25: no Return leaves a top-level statement; in PUnwind the return inside
\* if, block and while ends the call of inner only (the loop and the rest
\* of inner's body do not run, outer goes on with the returned value), the
\* bare return of outer and the end of fall's body yield Nil, and the
\* statements after each call run.
C25_ReturnEndsNearestCall ==
    /\ last.tag # "ret"
    /\ (prog[1] = "unwind" /\ last.stmt > 0) =>
          /\ last.tag = "ok"
          /\ LastPrinted = UnwindPrinted(prog[2] = 1)[last.stmt]

\* inner has returned 7 from inside its loop and outer has gone on
C25_Witness ==
    /\ prog = <<"unwind", 0, 0>>
    /\ last.stmt = 4
    /\ LastPrinted = <<VStr("in"), VStr("loop"), VNum(7), VStr("after"), VNil>>

\* ------------------------------------------------------------------------
\* C26: assignment writes the resolved environment and creates nothing
\* ------------------------------------------------------------------------

\* in PAssign: the nearest level at or below level that declares x, or -1
Nearest(mask, level) ==
    LET at == {l \in 0..level : DeclaredAt(mask, l)}
    IN IF at = {} THEN -1 ELSE CHOOSE l \in at : \A k \in at : k <= l

\* the value of the x of a level after  x = 9;  in the innermost block
XAfter(mask, level) == VNum(IF level = Nearest(mask, 2) THEN 9 ELSE level)

\* the bindings of the environment of a level after the assignment
ValuesAfter(mask, level) ==
    LET own == IF DeclaredAt(mask, level) THEN ("x" :> XAfter(mask, level)) ELSE EmptyMap
    IN IF level = 0 THEN own @@ (CLOCK_NAME :> VClock) ELSE own

NoVariable(name) == "Undefined variable '" \o name \o "'."

\* C26: at the end of PAssign the x of the nearest declaring level holds 9,
\* every other environment is as it was (the block of the assignment and
\* the levels without a declaration hold no x, the other declared x keep
\* their values), and without any declaration the assignment raises
\* Undefined variable and the global environment holds no x.
C26_AssignmentTarget ==
    (prog[1] = "assign" /\ pc = "done") =>
        /\ Len(st.envs) = 4
        /\ \A level \in 0..2 : st.envs[level + 1].values = ValuesAfter(prog[2], level)
        /\ st.envs[4].values = EmptyMap
        /\ LET seen == SelectSeq(<<2, 1, 0>>, LAMBDA level : Nearest(prog[2], level) # -1)
           IN /\ Printed = [i \in 1..Len(seen) |-> XAfter(prog[2], Nearest(prog[2], seen[i]))]
              /\ Raised = [i \in 1..(IF prog[2] = 0 THEN 2 ELSE 3 - Len(seen)) |-> NoVariable("x")]

\* x of the block two links up is written, the global x and the blocks between keep theirs
C26_Witness ==
    /\ prog = <<"assign", 3, 0>>
    /\ pc = "done"
    /\ st.envs[2].values = ("x" :> VNum(9))
    /\ st.envs[1].values["x"] = VNum(0)
    /\ ResolvedAt("Assign", 2)

\* ------------------------------------------------------------------------
\* C27: redeclaration in the same local scope
\* ------------------------------------------------------------------------

AlreadyDeclared == "Already a variable with the same name in this scope"

\* a resolver inside one local scope that holds a, only declared or defined
InScope(defined) == [Resolver_new(<<>>) EXCEPT !.scopes = <<("a" :> defined)>>]

\* C27: the programs of PDeclare that declare a name twice in one local
\* scope (by var, fun, class or parameter) are rejected at the second
\* declaration, those that shadow it in a nested scope or redeclare it at
\* global scope are accepted; declare itself rejects a name the innermost
\* scope holds, declared or defined, and accepts it in a fresh nested scope
\* and on the empty scope stack.
C27_Redeclaration ==
    /\ \A defined \in BOOLEAN :
          /\ declare(InScope(defined), Ident("a")).err = AlreadyDeclared
          /\ declare(begin_scope(InScope(defined)), Ident("a")).err = ""
          /\ declare(InScope(defined), Ident("b")).err = ""
    /\ declare(Resolver_new(<<>>), Ident("a")) = ROk(Resolver_new(<<>>))
    /\ (prog[1] = "declare" /\ pc # "resolve") =>
          IF prog[2] <= Len(RedeclaredAt)
          THEN /\ pc = "rejected"
               /\ resolveErr = AlreadyDeclared
               /\ resolveToken.lexeme = "a"
               /\ resolveToken.id = RedeclaredAt[prog[2]]
          ELSE resolveErr = ""

\* a parameter named like the parameter before it is rejected
C27_Witness ==
    /\ prog = <<"declare", 10, 0>>
    /\ pc = "rejected"
    /\ resolveErr = AlreadyDeclared
    /\ resolveToken.id = 4

\* ------------------------------------------------------------------------
\* C28: a reference resolved to the global keeps denoting the global
\* ------------------------------------------------------------------------

\* what PStatic prints: show, show, print a, show in the block, then print a
StaticPrinted(later) ==
    <<VStr("global"), VStr("global"), VStr(IF later THEN "block" ELSE "one"), VStr("one"),
      VStr("one")>>

\* C28: in PStatic the functions show and set, declared in the block while
\* a is declared only globally, read and write the global a on every call,
\* before and after the block declares its own a: show prints the same
\* with and without the later declaration, set changes the global a, and
\* the a of the block keeps its value.
C28_StaticScope ==
    (prog[1] = "static" /\ last.stmt >= 2) =>
        /\ last.tag = "ok"
        /\ Printed = SubSeq(StaticPrinted(prog[2] = 1), 1, IF last.stmt = 2 THEN 4 ELSE 5)
        /\ Raised = <<>>
        /\ st.envs[Globals].values["a"] = VStr("one")
        /\ st.envs[2].values =
              IF prog[2] = 1 THEN ("a" :> VStr("block")) @@ st.envs[2].values
              ELSE [n \in {"show", "set"} |-> st.envs[2].values[n]]

\* show has printed the global a after the block declared its own
C28_Witness ==
    /\ prog = <<"static", 1, 0>>
    /\ pc = "done"
    /\ Printed = StaticPrinted(TRUE)
    /\ st.envs[2].values["a"] = VStr("block")

\* ------------------------------------------------------------------------
\* C29: the limit on parameters
\* ------------------------------------------------------------------------

\* the token of the i-th parameter of fun f(a,a,...,a){}
ParameterToken(i) == parser.tokens[2 * i + 2]

\* C29: a function declaration with at most 255 parameters is parsed with
\* all its parameters in order; one with more is the parse error "Can't
\* have more than 255 arguments." and yields no Function statement.
C29_ParameterLimit ==
    (Parsed /\ parser.input.family = "fun") =>
        IF parser.input.index <= MAX_ARGS_COUNT
        THEN /\ parser.reported = <<>>
             /\ Len(parser.stmts) = 1
             /\ parser.stmts[1].k = "Function"
             /\ parser.stmts[1].params = [i \in 1..parser.input.index |-> ParameterToken(i)]
        ELSE /\ Messages = <<"Can't have more than 255 arguments.">>
             /\ parser.stmts = <<>>

\* ------------------------------------------------------------------------
\* C30: parse terminates
\* ------------------------------------------------------------------------

\* C30: on the tokens of every source text, which end with Eof, every turn
\* of the loop of parse returns, has consumed at least one token and leaves
\* the cursor before the end of the tokens; so parse returns after at most
\* as many turns as there are tokens.
C30_ParseTerminates ==
    [][(parser.state = "parsing" /\ ~at_end(parser)) =>
          /\ parser'.state = "parsing"
          /\ parser'.current > parser.current
          /\ parser'.current < Len(parser.tokens)]_vars

====
